---- MODULE Spec2Model ----
(***************************************************************************)
(* Model of the asset optimisation scripts of "Terror in the Jungle":      *)
(* scripts/smart_optimize.py (class SmartOptimizer) and the scripts beside  *)
(* it.                                                                     *)
(*                                                                         *)
(* The specifications share the variables:                                 *)
(*   SpecClassify  applies detect_content_type to bounded file names,      *)
(*   SpecSizing    applies calculate_new_dimensions to bounded sizes,      *)
(*   SpecPng       applies the two PNG optimize functions to one file,     *)
(*   SpecAudio     applies the two optimize_audio functions to one file,   *)
(*   SpecSteps     runs one such call statement by statement,              *)
(*   SpecArchive   makes several SmartOptimizer objects and their backups, *)
(*   SpecAssets    is one execution of AssetOptimizer.optimize_all         *)
(*                 (scripts/optimize_assets.py),                           *)
(*   SpecSummary   applies AssetOptimizer.print_summary to bounded stats,  *)
(*   SpecCompressor is one execution of AudioCompressor.run                *)
(*                 (scripts/compress_audio_simple.py),                     *)
(*   SpecTextures  is repeated executions of compress_textures.main,       *)
(*   Spec          is one execution of SmartOptimizer.run_optimization.    *)
(* A file name is a sequence of one-character strings, so that Python's    *)
(* substring test, str.lower() and the glob patterns are computed on it.   *)
(***************************************************************************)
EXTENDS Integers, Sequences, FiniteSets, TLC

VARIABLES
    \* ---- SpecClassify
    filename,          \* the name under classification
    calls,             \* the calls of detect_content_type made so far: <<[arg, ret]>>
    \* ---- SpecSizing
    width, height,     \* arguments of calculate_new_dimensions
    max_dimension,
    dims_result,       \* << >>, or <<[raised, w, h]>> once the call is made
    \* ---- SpecPng
    call_input,        \* the PNG file an optimize function is called on
    call_result,       \* << >>, or <<[fn, result]>> once the call has returned
    \* ---- Spec: one execution of run_optimization
    assets,            \* the assets directory, in listing order: <<[name, size, w, h, readable]>>
    pc,                \* where run_optimization is
    tools_needed,      \* check_dependencies: the tools found missing
    backup_todo,       \* backup_all_assets: the files of all_files not yet copied
    archive,           \* the archive directory: {[name, size]}
    copy_failed,       \* a copy into the archive has failed
    readme_written,    \* README.md is in the archive directory
    stats,             \* self.stats
    png_todo,          \* the rest of png_files
    wav_todo,          \* the rest of audio_files
    optimized_dir,     \* public/assets_optimized: {[name, size, w, h]}
    optimized_resize_dir,  \* public/assets_optimized_resized
    report,            \* << >>, or <<the content of optimization_report.json>>
    handed,            \* the calls of the optimize functions so far: <<[fn, name]>>
    crash,             \* "", or the exception that ended the run
    \* ---- SpecSteps: one call of a PNG optimize function, statement by statement
    step_input,        \* the file at input_path
    step_fn,           \* the function the caller called
    step_pc,           \* the line the call is at
    output_path,       \* << >>, or <<the file at output_path>>
    temp_path,         \* << >>, or <<the file at output_path.with_suffix('.tmp.png')>>
    step_dims,         \* << >>, or <<(new_width, new_height) of line 238>>
    step_log,          \* the file operations made so far
    step_ret,          \* << >>, or <<the stats returned>>
    \* ---- SpecArchive: several SmartOptimizer objects and their backups
    clock,             \* the time of datetime.now(), in ticks
    runs,              \* the SmartOptimizer objects made: <<[archive_dir, created, todo]>>
    archive_writes,    \* the copies into assets_archive so far: <<[run, dir, name]>>
    \* ---- SpecAssets: one execution of AssetOptimizer.optimize_all
    ao_assets,         \* the assets directory, in listing order
    ao_pc,             \* where optimize_all is
    ao_tools,          \* check_tools: the tools found
    ao_stats,          \* self.stats
    ao_png_todo,       \* the rest of png_files
    ao_wav_todo,       \* the rest of audio_files
    ao_output_dir,     \* self.output_dir: where it is
    ao_output,         \* the names of the files in output_dir
    ao_overwritten,    \* the names of the files of assets_dir written over
    ao_processed,      \* the assets handed to an optimize function: <<[name, success]>>
    ao_listed,         \* << >>, or <<the entries print_summary listed>>
    ao_report,         \* << >>, or <<the content of optimization_report.json>>
    \* ---- SpecCompressor: one execution of AudioCompressor.run
    cp_pc,             \* where run is
    cp_transmissions,  \* << >>, or <<the listing of public/assets/transmissions>>
    cp_wavs,           \* the sound files that exist: {[dir, name, size]}
    cp_todo,           \* process_transmissions: the rest of wav_files
    cp_cur,            \* << >>, or <<the file being processed>>
    cp_backup,         \* the files of backup_dir: {[name, of, state]}
    cp_ogg,            \* the files that have their .ogg next to them
    cp_log,            \* the backups, failed compressions and deletions so far
    \* ---- SpecTextures: executions of compress_textures.main
    tx_pc,             \* where main is
    tx_run,            \* the number of executions begun
    tx_files,          \* the content of each texture in public/assets
    tx_backup,         \* the content of each file of public/assets/original
    tx_todo,           \* the rest of TEXTURE_CONFIGS.items()
    tx_total,          \* total_original
    tx_log,            \* what this execution did with each texture
    tx_initial         \* the content of each texture before the first execution

pure_vars == <<filename, calls, width, height, max_dimension, dims_result,
               call_input, call_result>>

run_vars == <<assets, pc, tools_needed, backup_todo, archive, copy_failed,
              readme_written, stats,
              png_todo, wav_todo, optimized_dir, optimized_resize_dir, report,
              handed, crash>>

step_vars == <<step_input, step_fn, step_pc, output_path, temp_path, step_dims,
               step_log, step_ret>>

archive_vars == <<clock, runs, archive_writes>>

asset_vars == <<ao_assets, ao_pc, ao_tools, ao_stats, ao_png_todo, ao_wav_todo,
                ao_output_dir, ao_output, ao_overwritten, ao_processed, ao_listed,
                ao_report>>

compressor_vars == <<cp_pc, cp_transmissions, cp_wavs, cp_todo, cp_cur, cp_backup,
                     cp_ogg, cp_log>>

texture_vars == <<tx_pc, tx_run, tx_files, tx_backup, tx_todo, tx_total, tx_log,
                  tx_initial>>

\* the variables of the specifications other than the first four
aux_vars == <<step_vars, archive_vars, asset_vars, compressor_vars, texture_vars>>

\* what the actions of one of these specifications leave alone
step_frame == <<pure_vars, run_vars, archive_vars, asset_vars, compressor_vars,
                texture_vars>>
archive_frame == <<pure_vars, run_vars, step_vars, asset_vars, compressor_vars,
                   texture_vars>>
asset_frame == <<pure_vars, run_vars, step_vars, archive_vars, compressor_vars,
                 texture_vars>>
compressor_frame == <<pure_vars, run_vars, step_vars, archive_vars, asset_vars,
                      texture_vars>>
texture_frame == <<pure_vars, run_vars, step_vars, archive_vars, asset_vars,
                   compressor_vars>>

vars == <<pure_vars, run_vars, aux_vars>>

----------------------------------------------------------------------------
(* Bounds of the model *)

\* a generated file name is the concatenation of at most MaxParts fragments
MaxParts == 2
\* detect_content_type is called at most MaxCalls times on one name
MaxCalls == 2
\* widths and heights are taken around the multiples of 512 up to MaxBlocks * 512
MaxBlocks == 9
\* ... at most MaxOff away from the multiple
MaxOff == 2
\* the assets directory holds at most MaxFiles files
MaxFiles == 3
\* a file has at most MaxSize bytes
MaxSize == 2
\* at most MaxRuns SmartOptimizer objects are made
MaxRuns == 2
\* the clock goes up to MaxClock ticks
MaxClock == 4

----------------------------------------------------------------------------
(* Strings as sequences of characters *)

Min(a, b) == IF a <= b THEN a ELSE b
Max(a, b) == IF a >= b THEN a ELSE b

\* Python: k in s
Contains(s, k) ==
    \E i \in 1..(Len(s) - Len(k) + 1) : SubSeq(s, i, i + Len(k) - 1) = k

\* Python: s.endswith(k)
EndsWith(s, k) ==
    /\ Len(s) >= Len(k)
    /\ SubSeq(s, Len(s) - Len(k) + 1, Len(s)) = k

UpperToLower ==
    [A |-> "a", B |-> "b", C |-> "c", D |-> "d", E |-> "e", F |-> "f", G |-> "g",
     H |-> "h", I |-> "i", J |-> "j", K |-> "k", L |-> "l", M |-> "m", N |-> "n",
     O |-> "o", P |-> "p", Q |-> "q", R |-> "r", S |-> "s", T |-> "t", U |-> "u",
     V |-> "v", W |-> "w", X |-> "x", Y |-> "y", Z |-> "z"]

LowerChar(c) == IF c \in DOMAIN UpperToLower THEN UpperToLower[c] ELSE c

UpperChar(c) ==
    IF \E u \in DOMAIN UpperToLower : UpperToLower[u] = c
    THEN CHOOSE u \in DOMAIN UpperToLower : UpperToLower[u] = c
    ELSE c

\* Python: s.lower()
lower(s) == [i \in 1..Len(s) |-> LowerChar(s[i])]

\* Python: s.upper()
upper(s) == [i \in 1..Len(s) |-> UpperChar(s[i])]

----------------------------------------------------------------------------
(* detect_content_type: the substrings of its rules *)

kw_soldier      == <<"s","o","l","d","i","e","r">>
kw_enemy        == <<"e","n","e","m","y">>
kw_dipterocarp  == <<"d","i","p","t","e","r","o","c","a","r","p">>
kw_banyan       == <<"b","a","n","y","a","n">>
kw_coconut      == <<"c","o","c","o","n","u","t">>
kw_palm         == <<"p","a","l","m">>
kw_tree         == <<"t","r","e","e">>
kw_fern         == <<"f","e","r","n">>
kw_elephant     == <<"e","l","e","p","h","a","n","t">>
kw_grass        == <<"g","r","a","s","s">>
kw_skybox       == <<"s","k","y","b","o","x">>
kw_floor        == <<"f","l","o","o","r">>
kw_ground       == <<"g","r","o","u","n","d">>
kw_first_person == <<"f","i","r","s","t","-","p","e","r","s","o","n">>
kw_ui           == <<"u","i">>

ContentTypes == {"soldier", "tree", "foliage", "skybox", "texture", "ui", "misc"}

\* the same chain without the lower() of line 120
detect_content_type_no_lower(name) ==
    IF \E x \in {kw_soldier, kw_enemy} : Contains(name, x) THEN "soldier"
    ELSE IF \E x \in {kw_dipterocarp, kw_banyan, kw_coconut, kw_palm, kw_tree} :
                Contains(name, x) THEN "tree"
    ELSE IF \E x \in {kw_fern, kw_elephant, kw_grass} : Contains(name, x) THEN "foliage"
    ELSE IF Contains(name, kw_skybox) THEN "skybox"
    ELSE IF \E x \in {kw_floor, kw_ground} : Contains(name, x) THEN "texture"
    ELSE IF Contains(name, kw_first_person) \/ Contains(name, kw_ui) THEN "ui"
    ELSE "misc"

\* the chain with the texture rule tested before the tree rule
detect_content_type_reordered(name) ==
    LET name_lower == lower(name) IN
    IF \E x \in {kw_soldier, kw_enemy} : Contains(name_lower, x) THEN "soldier"
    ELSE IF \E x \in {kw_floor, kw_ground} : Contains(name_lower, x) THEN "texture"
    ELSE IF \E x \in {kw_dipterocarp, kw_banyan, kw_coconut, kw_palm, kw_tree} :
                Contains(name_lower, x) THEN "tree"
    ELSE IF \E x \in {kw_fern, kw_elephant, kw_grass} : Contains(name_lower, x)
         THEN "foliage"
    ELSE IF Contains(name_lower, kw_skybox) THEN "skybox"
    ELSE IF Contains(name_lower, kw_first_person) \/ Contains(name_lower, kw_ui)
         THEN "ui"
    ELSE "misc"

detect_content_type(name) ==
    LET name_lower == lower(name) IN
    IF \E x \in {kw_soldier, kw_enemy} : Contains(name_lower, x) THEN "soldier"
    ELSE IF \E x \in {kw_dipterocarp, kw_banyan, kw_coconut, kw_palm, kw_tree} :
                Contains(name_lower, x) THEN "tree"
    ELSE IF \E x \in {kw_fern, kw_elephant, kw_grass} : Contains(name_lower, x)
         THEN "foliage"
    ELSE IF Contains(name_lower, kw_skybox) THEN "skybox"
    ELSE IF \E x \in {kw_floor, kw_ground} : Contains(name_lower, x) THEN "texture"
    ELSE IF Contains(name_lower, kw_first_person) \/ Contains(name_lower, kw_ui)
         THEN "ui"
    ELSE "misc"

----------------------------------------------------------------------------
(* The sizing rules and calculate_new_dimensions *)

sizing_rules ==
    [soldier |-> 1024, tree |-> 2048, foliage |-> 1024,
     skybox |-> 4096, texture |-> 512, ui |-> 512]

\* self.sizing_rules.get(content_type, {'max_dimension': 2048})['max_dimension']
MaxDimensionFor(content_type) ==
    IF content_type \in DOMAIN sizing_rules THEN sizing_rules[content_type] ELSE 2048

(* Python computes width / height in IEEE-754 binary64 and truncates the    *)
(* product or quotient with int().  The double nearest to n/d is            *)
(* m * 2^(E-52) with 2^E <= n/d < 2^(E+1); the remainder of n * 2^(52-E)    *)
(* by d tells whether it was rounded up or down, and this decides whether   *)
(* an exactly integral result k is returned as k or lands just below k and  *)
(* is truncated to k - 1.  A fractional exact result is never affected: it  *)
(* lies at least 1/d from an integer.                                       *)

RECURSIVE UpExp(_, _, _)
UpExp(n, d, e) == IF n < d * 2^(e + 1) THEN e ELSE UpExp(n, d, e + 1)

RECURSIVE DownExp(_, _, _)
DownExp(n, d, j) == IF n * 2^j >= d THEN j ELSE DownExp(n, d, j + 1)

\* E with 2^E <= n/d < 2^(E+1), for n >= 1 and d >= 1
RatioExponent(n, d) == IF n >= d THEN UpExp(n, d, 0) ELSE 0 - DownExp(n, d, 1)

\* (x * 2^n) mod d, sixteen bits at a time so that no product leaves 32 bits
RECURSIVE ShiftMod(_, _, _)
ShiftMod(x, n, d) ==
    IF n <= 16 THEN ((x % d) * 2^n) % d
    ELSE ShiftMod(((x % d) * 2^16) % d, n - 16, d)

\* e with 2^e < k <= 2^(e+1), for k >= 1
RECURSIVE GapExp(_, _)
GapExp(k, e) == IF k <= 2^(e + 1) THEN e ELSE GapExp(k, e + 1)

\* a * 2^s > b
ScaledGreater(a, s, b) == IF s >= 0 THEN a * 2^s > b ELSE a > b * 2^(0 - s)

\* the remainder of the 53-bit significand of float(n / d)
RatioRemainder(n, d) == ShiftMod(n, 52 - RatioExponent(n, d), d)

\* int(m / (n / d)) for n > d >= 1: aspect_ratio = n / d, line 152
FloatTruncDiv(m, n, d) ==
    LET q   == (m * d) \div n
        rem == RatioRemainder(n, d)
        s   == 1 + RatioExponent(n, d) - GapExp(q, 0 - 1)
    IN  IF (m * d) % n # 0 \/ q = 0 THEN q
        ELSE IF rem = 0 \/ 2 * rem < d THEN q       \* ratio exact or rounded down
        ELSE IF ScaledGreater((d - rem) * q, s, n) THEN q - 1 ELSE q

\* int(m * (n / d)) for 0 <= n <= d, d >= 1: aspect_ratio = n / d, line 156
FloatTruncMul(m, n, d) ==
    LET q   == (m * n) \div d
        rem == RatioRemainder(n, d)
        s   == 1 + RatioExponent(n, d) - GapExp(q, 0 - 1)
    IN  IF (m * n) % d # 0 \/ q = 0 THEN q
        ELSE IF rem = 0 \/ 2 * rem > d THEN q       \* ratio exact or rounded up
        ELSE IF ScaledGreater(rem * q, s, n) THEN q - 1 ELSE q

\* new_width - (new_width % 2)
EvenDown(n) == n - (n % 2)

Returned(w, h) == [raised |-> FALSE, w |-> w, h |-> h]
\* width / height with height = 0 raises ZeroDivisionError
Raised == [raised |-> TRUE, w |-> 0, h |-> 0]

\* the function without the "don't upscale" return of lines 143-144
calculate_new_dimensions_no_guard(w, h, max_dim) ==
    IF h = 0 THEN Raised
    ELSE IF w > h
         THEN Returned(EvenDown(max_dim), EvenDown(FloatTruncDiv(max_dim, w, h)))
         ELSE Returned(EvenDown(FloatTruncMul(max_dim, w, h)), EvenDown(max_dim))

\* the function with the orientation test of line 149 inverted
calculate_new_dimensions_swapped(w, h, max_dim) ==
    IF w <= max_dim /\ h <= max_dim THEN Returned(w, h)
    ELSE IF h = 0 \/ w = 0 THEN Raised
    ELSE IF w < h
         THEN LET new_width == Min(w, max_dim)
              IN  Returned(EvenDown(new_width), EvenDown((new_width * h) \div w))
         ELSE LET new_height == Min(h, max_dim)
              IN  Returned(EvenDown((new_height * w) \div h), EvenDown(new_height))

\* the function without the adjustment of lines 159-160
calculate_new_dimensions_no_even(w, h, max_dim) ==
    IF w <= max_dim /\ h <= max_dim THEN Returned(w, h)
    ELSE IF h = 0 THEN Raised
    ELSE IF w > h
         THEN Returned(Min(w, max_dim), FloatTruncDiv(Min(w, max_dim), w, h))
         ELSE Returned(FloatTruncMul(Min(h, max_dim), w, h), Min(h, max_dim))

calculate_new_dimensions(w, h, max_dim) ==
    IF w <= max_dim /\ h <= max_dim THEN Returned(w, h)
    ELSE IF h = 0 THEN Raised
    ELSE IF w > h
         THEN LET new_width  == Min(w, max_dim)
                  new_height == FloatTruncDiv(new_width, w, h)
              IN  Returned(EvenDown(new_width), EvenDown(new_height))
         ELSE LET new_height == Min(h, max_dim)
                  new_width  == FloatTruncMul(new_height, w, h)
              IN  Returned(EvenDown(new_width), EvenDown(new_height))

----------------------------------------------------------------------------
(* The states in which a specification leaves the variables of the others *)

ClassifyIdle == filename = << >> /\ calls = << >>
SizingIdle ==
    width = 0 /\ height = 0 /\ max_dimension = 0 /\ dims_result = << >>
PngIdle == call_input = << >> /\ call_result = << >>
StepIdle ==
    /\ step_input = << >> /\ step_fn = "" /\ step_pc = "idle"
    /\ output_path = << >> /\ temp_path = << >> /\ step_dims = << >>
    /\ step_log = << >> /\ step_ret = << >>
ArchiveIdle == clock = 0 /\ runs = << >> /\ archive_writes = << >>
\* AssetOptimizer.__init__, lines 25-30
AssetInitialStats ==
    [original_size |-> 0, optimized_size |-> 0, files_processed |-> 0,
     savings |-> << >>]
AssetIdle ==
    /\ ao_assets = << >> /\ ao_pc = "idle" /\ ao_tools = {}
    /\ ao_stats = AssetInitialStats
    /\ ao_png_todo = << >> /\ ao_wav_todo = << >> /\ ao_output = {}
    /\ ao_output_dir = "" /\ ao_overwritten = {}
    /\ ao_processed = << >> /\ ao_listed = << >> /\ ao_report = << >>
CompressorIdle ==
    /\ cp_pc = "idle" /\ cp_transmissions = << >> /\ cp_wavs = {}
    /\ cp_todo = << >> /\ cp_cur = << >> /\ cp_backup = {} /\ cp_ogg = {}
    /\ cp_log = << >>
TextureIdle ==
    /\ tx_pc = "none" /\ tx_run = 0 /\ tx_files = << >> /\ tx_backup = << >>
    /\ tx_todo = << >> /\ tx_total = 0 /\ tx_log = << >> /\ tx_initial = << >>
\* the scripts that are not run
OthersIdle == CompressorIdle /\ TextureIdle
AuxIdle == StepIdle /\ ArchiveIdle /\ AssetIdle /\ OthersIdle

----------------------------------------------------------------------------
(* The assets directory *)

ext_png == <<".","p","n","g">>
ext_wav == <<".","w","a","v">>
ext_ogg == <<".","o","g","g">>

\* Path.glob('*.*'), Path.glob('*.png'), Path.glob('*.wav') on a listing
GlobAll(dir) == SelectSeq(dir, LAMBDA f : Contains(f.name, <<".">>))
GlobPng(dir) == SelectSeq(dir, LAMBDA f : EndsWith(f.name, ext_png))
GlobWav(dir) == SelectSeq(dir, LAMBDA f : EndsWith(f.name, ext_wav))

\* input_path.with_suffix('.ogg').name
OggName(name) == SubSeq(name, 1, Len(name) - Len(ext_wav)) \o ext_ogg

\* the files a directory of the model is made of: two images that open, an empty
\* one and a corrupt one that do not, two sounds, a file without extension and
\* a file that is neither a PNG nor a WAV
File(name, size, w, h, readable) ==
    [name |-> name, size |-> size, w |-> w, h |-> h, readable |-> readable]

Candidates ==
    { File(kw_soldier \o ext_png, MaxSize, 2048, 4096, TRUE),
      File(kw_floor \o ext_png, MaxSize, 400, 300, TRUE),
      File(<<"e","m","p","t","y">> \o ext_png, 0, 0, 0, FALSE),
      File(kw_tree \o ext_png, MaxSize, 0, 0, FALSE),
      File(<<"j","u","n","g","l","e">> \o ext_wav, MaxSize, 0, 0, TRUE),
      File(<<"s","h","o","t">> \o ext_wav, 0, 0, 0, FALSE),
      File(<<"n","o","t","e","s">>, MaxSize, 0, 0, FALSE),
      File(<<"m","a","p",".","j","p","g">>, MaxSize, 0, 0, TRUE) }

RECURSIVE Listings(_)
Listings(n) ==
    IF n = 0 THEN {<< >>}
    ELSE Listings(n - 1) \cup
         {Append(l, f) : l \in {k \in Listings(n - 1) : Len(k) = n - 1},
                         f \in Candidates}

\* the directories: listings of at most MaxFiles different files
Directories ==
    {l \in Listings(MaxFiles) : \A i, j \in 1..Len(l) : i # j => l[i] # l[j]}

----------------------------------------------------------------------------
(* The external tools, as what a call can do *)

Outcome(kind, size) == [kind |-> kind, size |-> size]

\* pngquant: exit 0 with its output file, a non-zero exit, exit 0 without an
\* output file, or subprocess.run raising because it cannot be launched
PngquantOutcomes(valid_input) ==
    {Outcome("nonzero", 0), Outcome("no_output", 0), Outcome("launch_fail", 0)}
        \cup (IF valid_input THEN {Outcome("ok", n) : n \in 1..MaxSize} ELSE {})

\* optipng, in place on a file of the given size: recompressed, a non-zero exit
\* that leaves the file as it is, or not launched
OptipngOutcomes(valid_input, size) ==
    {Outcome("nonzero", 0), Outcome("launch_fail", 0)}
        \cup (IF valid_input THEN {Outcome("ok", n) : n \in 1..size} ELSE {})

\* PIL resize and save: written, or an exception
SaveOutcomes == {Outcome("raise", 0)} \cup {Outcome("ok", n) : n \in 1..MaxSize}

----------------------------------------------------------------------------
(* optimize_png_same_size and optimize_png_smart_resize *)

HAS_PIL == TRUE

OutFile(size, w, h) == [size |-> size, w |-> w, h |-> h]

PngStats(original_size, optimized_size, changed, odims, ndims) ==
    [original_size |-> original_size, optimized_size |-> optimized_size,
     dimensions_changed |-> changed,
     original_dimensions |-> odims, new_dimensions |-> ndims]

\* what a call leaves: it raised or returned stats, the file at output_path
\* (<< >> when there is none), the step that produced that file, and the steps made
Result(raised, st, out, by, ops) ==
    [raised |-> raised, stats |-> st, out |-> out, by |-> by, ops |-> ops]

\* what the caller and the file system see of a call
Returned_(r) == [raised |-> r.raised, stats |-> r.stats, out |-> r.out]

\* the try block of lines 172-205: exc tells that it ended in an exception
SameSizeTry(f, q, o) ==
    LET copied == OutFile(f.size, f.w, f.h) IN
    IF q.kind = "launch_fail"
    THEN [exc |-> TRUE, out |-> << >>, by |-> "", ops |-> <<"pngquant:raise">>]
    ELSE IF q.kind = "ok"
    THEN [exc |-> FALSE, out |-> <<OutFile(q.size, f.w, f.h)>>, by |-> "pngquant",
          ops |-> <<"pngquant:ok", "move">>]
    ELSE IF o.kind = "launch_fail"
    THEN [exc |-> TRUE, out |-> <<copied>>, by |-> "copy",
          ops |-> <<"pngquant:" \o q.kind, "copy", "optipng:raise">>]
    ELSE IF o.kind = "ok"
    THEN [exc |-> FALSE, out |-> <<OutFile(o.size, f.w, f.h)>>, by |-> "optipng",
          ops |-> <<"pngquant:" \o q.kind, "copy", "optipng:ok">>]
    ELSE [exc |-> FALSE, out |-> <<copied>>, by |-> "copy",
          ops |-> <<"pngquant:" \o q.kind, "copy", "optipng:nonzero">>]

\* the function without its except clause: the exception reaches the caller
optimize_png_same_size_no_except(f, q, o) ==
    LET t == SameSizeTry(f, q, o) IN
    IF t.exc
    THEN Result(TRUE, PngStats(f.size, 0, FALSE, << >>, << >>), t.out, t.by, t.ops)
    ELSE Result(FALSE, PngStats(f.size, t.out[1].size, FALSE, << >>, << >>),
                t.out, t.by, t.ops)

optimize_png_same_size(f, q, o) ==
    LET t == SameSizeTry(f, q, o) IN
    IF t.exc
    THEN \* except: shutil.copy2(input_path, output_path)
         Result(FALSE, PngStats(f.size, f.size, FALSE, << >>, << >>),
                <<OutFile(f.size, f.w, f.h)>>, "copy", Append(t.ops, "copy"))
    ELSE Result(FALSE, PngStats(f.size, t.out[1].size, FALSE, << >>, << >>),
                t.out, t.by, t.ops)

\* every way a call of optimize_png_same_size on f can end
SameSizeResults(f) ==
    {optimize_png_same_size(f, q, o) :
        q \in PngquantOutcomes(f.readable), o \in OptipngOutcomes(f.readable, f.size)}

\* lines 234-238: the new dimensions for an image that opened
TargetDimensions(f) ==
    calculate_new_dimensions(f.w, f.h, MaxDimensionFor(detect_content_type(f.name)))

\* nd: what TargetDimensions(f) gives; fallback: what the call of
\* optimize_png_same_size in the except clause returns
optimize_png_smart_resize(f, nd, sv, q, fallback) ==
    LET changed == nd.w # f.w \/ nd.h # f.h
        saved == IF changed THEN "resize" ELSE "save"
        Fallback(ops) ==
            [fallback EXCEPT !.ops = ops \o <<"except">> \o fallback.ops]
    IN  IF ~HAS_PIL THEN fallback
        ELSE IF ~f.readable THEN Fallback(<<"open:raise">>)
        ELSE IF nd.raised THEN Fallback(<<"open", "dimensions:raise">>)
        ELSE IF sv.kind = "raise" THEN Fallback(<<"open", saved \o ":raise">>)
        ELSE IF q.kind = "launch_fail"
             THEN Fallback(<<"open", saved, "pngquant:raise">>)
        ELSE IF q.kind = "ok"
             THEN Result(FALSE,
                         PngStats(f.size, q.size, changed, <<f.w, f.h>>, <<nd.w, nd.h>>),
                         <<OutFile(q.size, nd.w, nd.h)>>, "pngquant",
                         <<"open", saved, "pngquant:ok", "move">>)
        ELSE Result(FALSE,
                    PngStats(f.size, sv.size, changed, <<f.w, f.h>>, <<nd.w, nd.h>>),
                    <<OutFile(sv.size, nd.w, nd.h)>>, saved,
                    <<"open", saved, "pngquant:" \o q.kind>>)

SmartResizeResults(f) ==
    {optimize_png_smart_resize(f, nd, sv, q, fb) :
        nd \in {IF f.readable THEN TargetDimensions(f) ELSE Raised},
        sv \in SaveOutcomes, q \in PngquantOutcomes(TRUE), fb \in SameSizeResults(f)}

----------------------------------------------------------------------------
(* optimize_audio *)

\* subprocess.run(cmd, capture_output=True, stderr=subprocess.DEVNULL): run()
\* refuses stderr together with capture_output and raises ValueError before
\* ffmpeg is started
FfmpegOutcomes == {Outcome("value_error", 0)}

optimize_audio(f, r) ==
    IF r.kind = "ok"
    THEN Result(FALSE, PngStats(f.size, r.size, FALSE, << >>, << >>),
                <<OutFile(r.size, 0, 0)>>, "ffmpeg", <<"ffmpeg:ok">>)
    ELSE \* except: shutil.copy2(input_path, output_path)
         Result(FALSE, PngStats(f.size, f.size, FALSE, << >>, << >>),
                <<OutFile(f.size, 0, 0)>>, "copy", <<"ffmpeg:raise", "copy">>)

AudioResults(f) == {optimize_audio(f, r) : r \in FfmpegOutcomes}

----------------------------------------------------------------------------
(* run_optimization, step by step *)

Tools == {"pngquant", "optipng", "ffmpeg"}

\* returns False when a probe failed
check_dependencies_lenient(missing) == TRUE

check_dependencies(missing) == missing = {}

\* the loop over all_files ends at once
all_files_copied_early(todo) == TRUE

\* the loop of lines 85-88 has gone through all_files
all_files_copied(todo) == todo = << >>

\* a failing copy is skipped and the loop goes on
backup_copy_skip_errors(f, copy_ok, arch, total) ==
    IF copy_ok
    THEN [raised |-> FALSE, archive |-> arch \cup {[name |-> f.name, size |-> f.size]},
          total |-> total + f.size]
    ELSE [raised |-> FALSE, archive |-> arch, total |-> total]

\* one round of the loop: shutil.copy2(file, dest), then the size is added;
\* an exception of copy2 is not caught anywhere
backup_copy(f, copy_ok, arch, total) ==
    IF copy_ok
    THEN [raised |-> FALSE, archive |-> arch \cup {[name |-> f.name, size |-> f.size]},
          total |-> total + f.size]
    ELSE [raised |-> TRUE, archive |-> arch, total |-> total]

\* what the loops of run_optimization do next
NextPhase(pngs, wavs) ==
    IF pngs # << >> THEN "png" ELSE IF wavs # << >> THEN "audio" ELSE "report"

\* the sum of a field over the entries of a list of per-file records
RECURSIVE SumOver(_, _)
SumOver(files, field) ==
    IF files = << >> THEN 0
    ELSE Head(files)[field] + SumOver(Tail(files), field)

InitialStats ==
    [backup_created |-> FALSE, original_total_size |-> 0, optimized_size |-> 0,
     optimized_resize_size |-> 0, files |-> << >>]

\* writing a file replaces the one of that name
WriteFile(dir, name, out) ==
    {e \in dir : e.name # name}
        \cup {[name |-> name, size |-> out.size, w |-> out.w, h |-> out.h]}

PureIdle == ClassifyIdle /\ SizingIdle /\ PngIdle

RunIdle ==
    /\ assets = << >> /\ pc = "idle" /\ tools_needed = {} /\ backup_todo = << >>
    /\ archive = {} /\ copy_failed = FALSE
    /\ readme_written = FALSE /\ stats = InitialStats
    /\ png_todo = << >> /\ wav_todo = << >>
    /\ optimized_dir = {} /\ optimized_resize_dir = {}
    /\ report = << >> /\ handed = << >> /\ crash = ""

\* SmartOptimizer(assets_dir): the three directories exist and are empty
Init ==
    /\ assets \in Directories
    /\ pc = "start"
    /\ tools_needed = {}
    /\ backup_todo = << >>
    /\ archive = {}
    /\ copy_failed = FALSE
    /\ readme_written = FALSE
    /\ stats = InitialStats
    /\ png_todo = << >> /\ wav_todo = << >>
    /\ optimized_dir = {} /\ optimized_resize_dir = {}
    /\ report = << >> /\ handed = << >> /\ crash = ""
    /\ PureIdle
    /\ AuxIdle

\* lines 365-368, and the listing of line 84
CheckDependencies ==
    /\ pc = "start"
    /\ \E missing \in SUBSET Tools :
          /\ tools_needed' = missing
          /\ IF check_dependencies(missing)
             THEN pc' = "backup" /\ backup_todo' = GlobAll(assets)
             ELSE pc' = "aborted" /\ backup_todo' = backup_todo
    /\ UNCHANGED <<assets, archive, copy_failed, readme_written, stats, png_todo,
                   wav_todo,
                   optimized_dir, optimized_resize_dir, report, handed, crash>>
    /\ UNCHANGED pure_vars
    /\ UNCHANGED aux_vars

\* lines 85-88, one file
BackupCopy ==
    /\ pc = "backup"
    /\ ~all_files_copied(backup_todo)
    /\ \E copy_ok \in BOOLEAN :
          LET r == backup_copy(Head(backup_todo), copy_ok, archive,
                               stats.original_total_size)
          IN  /\ archive' = r.archive
              /\ copy_failed' = (copy_failed \/ ~copy_ok)
              /\ stats' = [stats EXCEPT !.original_total_size = r.total]
              /\ backup_todo' = Tail(backup_todo)
              /\ pc' = IF r.raised THEN "crashed" ELSE pc
              /\ crash' = IF r.raised THEN "backup_all_assets: copy2 raised" ELSE crash
    /\ UNCHANGED <<assets, tools_needed, readme_written, png_todo, wav_todo,
                   optimized_dir, optimized_resize_dir, report, handed>>
    /\ UNCHANGED pure_vars
    /\ UNCHANGED aux_vars

\* lines 90-116, and the listings of lines 376 and 417
BackupFinish ==
    /\ pc = "backup"
    /\ all_files_copied(backup_todo)
    /\ stats' = [stats EXCEPT !.backup_created = TRUE]
    /\ readme_written' = TRUE
    /\ png_todo' = GlobPng(assets)
    /\ wav_todo' = GlobWav(assets)
    /\ pc' = NextPhase(GlobPng(assets), GlobWav(assets))
    /\ UNCHANGED <<assets, tools_needed, backup_todo, archive, copy_failed,
                   optimized_dir, optimized_resize_dir, report, handed, crash>>
    /\ UNCHANGED pure_vars
    /\ UNCHANGED aux_vars

PngEntry(f, s1, s2) ==
    [name |-> f.name, type |-> detect_content_type(f.name),
     original_size |-> s1.original_size, optimized_size |-> s1.optimized_size,
     optimized_resize_size |-> s2.optimized_size,
     dimensions |-> s2.original_dimensions, new_dimensions |-> s2.new_dimensions]

\* lines 380-414, one PNG file
ProcessPng ==
    /\ pc = "png"
    /\ \E f \in {Head(png_todo)} :
       \E same_size \in {{Returned_(r) : r \in SameSizeResults(f)}},
          resized \in {{Returned_(r) : r \in SmartResizeResults(f)}} :
       \E r1 \in same_size :
          /\ optimized_dir' =
                IF r1.out = << >> THEN optimized_dir
                ELSE WriteFile(optimized_dir, f.name, r1.out[1])
          /\ IF r1.raised \/ r1.stats.original_size = 0
             THEN \* line 389 divides by original_size
                  /\ pc' = "crashed"
                  /\ crash' = IF r1.raised THEN "optimize_png_same_size raised"
                              ELSE "line 389: ZeroDivisionError"
                  /\ handed' = Append(handed, [fn |-> "optimize_png_same_size",
                                               name |-> f.name])
                  /\ UNCHANGED <<stats, png_todo, optimized_resize_dir>>
             ELSE \E r2 \in resized :
                  /\ optimized_resize_dir' =
                        IF r2.out = << >> THEN optimized_resize_dir
                        ELSE WriteFile(optimized_resize_dir, f.name, r2.out[1])
                  /\ handed' = handed \o
                        << [fn |-> "optimize_png_same_size", name |-> f.name],
                           [fn |-> "optimize_png_smart_resize", name |-> f.name] >>
                  /\ IF r2.raised
                     THEN /\ pc' = "crashed"
                          /\ crash' = "optimize_png_smart_resize raised"
                          /\ UNCHANGED <<stats, png_todo>>
                     ELSE /\ stats' =
                               [stats EXCEPT
                                  !.files = Append(@, PngEntry(f, r1.stats, r2.stats)),
                                  !.optimized_size = @ + r1.stats.optimized_size,
                                  !.optimized_resize_size = @ + r2.stats.optimized_size]
                          /\ png_todo' = Tail(png_todo)
                          /\ pc' = NextPhase(Tail(png_todo), wav_todo)
                          /\ crash' = crash
    /\ UNCHANGED <<assets, tools_needed, backup_todo, archive, copy_failed,
                   readme_written, wav_todo, report>>
    /\ UNCHANGED pure_vars
    /\ UNCHANGED aux_vars

AudioEntry(f, s1, s2) ==
    [name |-> f.name, type |-> "audio",
     original_size |-> s1.original_size, optimized_size |-> s1.optimized_size,
     optimized_resize_size |-> s2.optimized_size]

\* lines 422-441, one WAV file
ProcessAudio ==
    /\ pc = "audio"
    /\ \E f \in {Head(wav_todo)} :
       \E r1 \in {Returned_(r) : r \in AudioResults(f)},
          r2 \in {Returned_(r) : r \in AudioResults(f)} :
          /\ optimized_dir' = WriteFile(optimized_dir, OggName(f.name), r1.out[1])
          /\ optimized_resize_dir' =
                WriteFile(optimized_resize_dir, OggName(f.name), r2.out[1])
          /\ handed' = handed \o
                << [fn |-> "optimize_audio", name |-> f.name],
                   [fn |-> "optimize_audio", name |-> f.name] >>
          /\ IF r1.stats.original_size = 0
             THEN \* line 430 divides by original_size
                  /\ pc' = "crashed"
                  /\ crash' = "line 430: ZeroDivisionError"
                  /\ UNCHANGED <<stats, wav_todo>>
             ELSE /\ stats' =
                       [stats EXCEPT
                          !.files = Append(@, AudioEntry(f, r1.stats, r2.stats)),
                          !.optimized_size = @ + r1.stats.optimized_size,
                          !.optimized_resize_size = @ + r2.stats.optimized_size]
                  /\ wav_todo' = Tail(wav_todo)
                  /\ pc' = NextPhase(<< >>, Tail(wav_todo))
                  /\ crash' = crash
    /\ UNCHANGED <<assets, tools_needed, backup_todo, archive, copy_failed,
                   readme_written, png_todo, report>>
    /\ UNCHANGED pure_vars
    /\ UNCHANGED aux_vars

\* generate_report: line 461 divides by original_mb before the report is written
GenerateReport ==
    /\ pc = "report"
    /\ IF stats.original_total_size = 0
       THEN /\ pc' = "crashed"
            /\ crash' = "line 461: ZeroDivisionError"
            /\ report' = report
       ELSE /\ pc' = "done"
            /\ crash' = crash
            /\ report' = <<[files |-> stats.files]>>
    /\ UNCHANGED <<assets, tools_needed, backup_todo, archive, copy_failed,
                   readme_written, stats, png_todo, wav_todo, optimized_dir, optimized_resize_dir, handed>>
    /\ UNCHANGED pure_vars
    /\ UNCHANGED aux_vars

Next ==
    \/ CheckDependencies
    \/ BackupCopy
    \/ BackupFinish
    \/ ProcessPng
    \/ ProcessAudio
    \/ GenerateReport

Spec == Init /\ [][Next]_vars

----------------------------------------------------------------------------
(* SpecPng: one call of optimize_png_same_size or optimize_png_smart_resize *)

\* the images that open: every candidate name with sizes that need no resize,
\* a resize, and a resize to a height of zero
ImageSizes == {<<400, 300>>, <<2048, 4096>>, <<4096, 4096>>, <<5000, 1>>}

PngInputs ==
    {f \in Candidates : EndsWith(f.name, ext_png) /\ ~f.readable}
        \cup {File(f.name, n, d[1], d[2], TRUE) :
                 f \in {c \in Candidates : EndsWith(c.name, ext_png)},
                 n \in 1..MaxSize, d \in ImageSizes}

PngInit ==
    /\ call_input \in PngInputs
    /\ call_result = << >>
    /\ ClassifyIdle /\ SizingIdle
    /\ RunIdle
    /\ AuxIdle

CallSameSize ==
    /\ call_result = << >>
    /\ \E r \in SameSizeResults(call_input) :
          call_result' = <<[fn |-> "optimize_png_same_size", result |-> r]>>
    /\ UNCHANGED <<filename, calls, width, height, max_dimension, dims_result,
                   call_input>>
    /\ UNCHANGED run_vars
    /\ UNCHANGED aux_vars

CallSmartResize ==
    /\ call_result = << >>
    /\ \E r \in SmartResizeResults(call_input) :
          call_result' = <<[fn |-> "optimize_png_smart_resize", result |-> r]>>
    /\ UNCHANGED <<filename, calls, width, height, max_dimension, dims_result,
                   call_input>>
    /\ UNCHANGED run_vars
    /\ UNCHANGED aux_vars

PngNext == CallSameSize \/ CallSmartResize

SpecPng == PngInit /\ [][PngNext]_vars

----------------------------------------------------------------------------
(* SpecSteps: one call of optimize_png_same_size or optimize_png_smart_resize, *)
(* one statement at a time, on the files at input_path, output_path and       *)
(* temp_path.  shutil.copy2 and Image.save open their destination for writing *)
(* and fill it: the file is there, incomplete, until they are done.  The      *)
(* process can be killed between any two steps.                               *)

SAME_SIZE == "optimize_png_same_size"
SMART_RESIZE == "optimize_png_smart_resize"

\* a file: its content, whether it was written to the end, and what wrote it
FsFile(size, w, h, state, by) ==
    [size |-> size, w |-> w, h |-> h, state |-> state, by |-> by]

\* a file whose writing has begun
Partial(by) == FsFile(0, 0, 0, "partial", by)

\* the file at input_path
InputFile(f) == FsFile(f.size, f.w, f.h, "complete", "original")

\* output_path before the call: nothing, or the output of an earlier run
PreviousOutputs == {<< >>, <<FsFile(1, 400, 300, "complete", "previous")>>}

\* one file operation: the function it is made in, the files it reads and
\* writes, how it ended, and the file it read
LogEntry(fn, op, src, dst, exit, input) ==
    [fn |-> fn, op |-> op, src |-> src, dst |-> dst, exit |-> exit, input |-> input]

\* pngquant is given input_path whatever the function
pngquant_source_input_path(fn) == "input_path"

\* the last argument of the pngquant command: lines 191 and 265
pngquant_source(fn) == IF fn = SMART_RESIZE THEN "output_path" ELSE "input_path"

\* the --quality range of the pngquant command: lines 178-183 in
\* optimize_png_same_size, line 257 in optimize_png_smart_resize
quality(fn, content_type) ==
    IF fn = SMART_RESIZE
    THEN IF content_type # "soldier" THEN "85-98" ELSE "95-100"
    ELSE IF content_type = "soldier" THEN "95-100"
         ELSE IF content_type = "skybox" THEN "85-98"
         ELSE "90-100"

\* the file a path of the call names
FileAt(path) ==
    IF path = "input_path" THEN <<InputFile(step_input)>>
    ELSE IF path = "output_path" THEN output_path
    ELSE temp_path

StepInit ==
    /\ step_input \in PngInputs
    /\ step_fn \in {SAME_SIZE, SMART_RESIZE}
    /\ step_pc = (IF step_fn = SAME_SIZE THEN "s194" ELSE "r224")
    /\ output_path \in PreviousOutputs
    /\ temp_path = << >>
    /\ step_dims = << >>
    /\ step_log = << >>
    /\ step_ret = << >>
    /\ PureIdle
    /\ RunIdle
    /\ ArchiveIdle
    /\ AssetIdle
    /\ OthersIdle

\* lines 194-196: pngquant from input_path to temp_path
S_Pngquant ==
    /\ step_pc = "s194"
    /\ \E q \in PngquantOutcomes(step_input.readable) :
          LET src == pngquant_source(SAME_SIZE) IN
          /\ step_log' = Append(step_log,
                LogEntry(SAME_SIZE, "pngquant", src, "temp_path", q.kind, FileAt(src))
                   @@ [quality |-> quality(SAME_SIZE,
                                           detect_content_type(step_input.name))])
          /\ temp_path' =
                IF q.kind = "ok"
                THEN <<FsFile(q.size, FileAt(src)[1].w, FileAt(src)[1].h,
                              "complete", "pngquant")>>
                ELSE temp_path
          /\ step_pc' = IF q.kind = "launch_fail" THEN "s209"
                        ELSE IF q.kind = "ok" THEN "s198" ELSE "s201"
    /\ UNCHANGED <<step_input, step_fn, output_path, step_dims, step_ret>>
    /\ UNCHANGED step_frame

\* line 198: shutil.move(temp_path, output_path)
S_Move ==
    /\ step_pc = "s198"
    /\ output_path' = temp_path
    /\ temp_path' = << >>
    /\ step_log' = Append(step_log,
          LogEntry(SAME_SIZE, "move", "temp_path", "output_path", "ok", temp_path))
    /\ step_pc' = "s205"
    /\ UNCHANGED <<step_input, step_fn, step_dims, step_ret>>
    /\ UNCHANGED step_frame

\* line 201: shutil.copy2(input_path, output_path) opens output_path
S_CopyStart ==
    /\ step_pc = "s201"
    /\ output_path' = <<Partial("copy2")>>
    /\ step_log' = Append(step_log,
          LogEntry(SAME_SIZE, "copy2", "input_path", "output_path", "ok",
                   FileAt("input_path")))
    /\ step_pc' = "s201w"
    /\ UNCHANGED <<step_input, step_fn, temp_path, step_dims, step_ret>>
    /\ UNCHANGED step_frame

\* line 201: the copy is complete
S_CopyFinish ==
    /\ step_pc = "s201w"
    /\ output_path' = <<[InputFile(step_input) EXCEPT !.by = "copy2"]>>
    /\ step_pc' = "s203"
    /\ UNCHANGED <<step_input, step_fn, temp_path, step_dims, step_log, step_ret>>
    /\ UNCHANGED step_frame

\* lines 202-203: optipng on output_path, its exit status is not looked at
S_Optipng ==
    /\ step_pc = "s203"
    /\ \E o \in OptipngOutcomes(step_input.readable, step_input.size) :
          /\ step_log' = Append(step_log,
                LogEntry(SAME_SIZE, "optipng", "output_path", "output_path", o.kind,
                         output_path))
          /\ output_path' =
                IF o.kind = "ok"
                THEN <<FsFile(o.size, step_input.w, step_input.h, "complete", "optipng")>>
                ELSE output_path
          /\ step_pc' = IF o.kind = "launch_fail" THEN "s209" ELSE "s205"
    /\ UNCHANGED <<step_input, step_fn, temp_path, step_dims, step_ret>>
    /\ UNCHANGED step_frame

\* lines 205 and 212: the stats of lines 166-170 with the size of the file
S_Stat ==
    /\ step_pc = "s205"
    /\ step_ret' = <<[raised |-> FALSE, optimized_size |-> output_path[1].size,
                      dimensions_changed |-> FALSE]>>
    /\ step_pc' = "returned"
    /\ UNCHANGED <<step_input, step_fn, output_path, temp_path, step_dims, step_log>>
    /\ UNCHANGED step_frame

\* line 209, in the except clause: shutil.copy2 opens output_path
S_ExceptCopyStart ==
    /\ step_pc = "s209"
    /\ output_path' = <<Partial("copy2")>>
    /\ step_log' = Append(step_log,
          LogEntry(SAME_SIZE, "copy2", "input_path", "output_path", "ok",
                   FileAt("input_path")))
    /\ step_pc' = "s209w"
    /\ UNCHANGED <<step_input, step_fn, temp_path, step_dims, step_ret>>
    /\ UNCHANGED step_frame

\* lines 209-212: the copy is complete, its size is returned
S_ExceptCopyFinish ==
    /\ step_pc = "s209w"
    /\ output_path' = <<[InputFile(step_input) EXCEPT !.by = "copy2"]>>
    /\ step_ret' = <<[raised |-> FALSE, optimized_size |-> step_input.size,
                      dimensions_changed |-> FALSE]>>
    /\ step_pc' = "returned"
    /\ UNCHANGED <<step_input, step_fn, temp_path, step_dims, step_log>>
    /\ UNCHANGED step_frame

\* lines 224-231: without PIL the other function is called (line 226); an image
\* that does not open raises into the except clause, which calls it too (276)
R_Open ==
    /\ step_pc = "r224"
    /\ step_pc' = IF ~HAS_PIL \/ ~step_input.readable THEN "s194" ELSE "r238"
    /\ UNCHANGED <<step_input, step_fn, output_path, temp_path, step_dims, step_log,
                   step_ret>>
    /\ UNCHANGED step_frame

\* lines 234-239
R_Dimensions ==
    /\ step_pc = "r238"
    /\ \E nd \in {TargetDimensions(step_input)} :
          IF nd.raised
          THEN step_pc' = "s194" /\ step_dims' = step_dims
          ELSE step_pc' = "r241" /\ step_dims' = <<nd>>
    /\ UNCHANGED <<step_input, step_fn, output_path, temp_path, step_log, step_ret>>
    /\ UNCHANGED step_frame

\* the image is resized when the dimensions of line 238 are not its own
Changed == step_dims[1].w # step_input.w \/ step_dims[1].h # step_input.h

\* lines 241-253: img.resize(...) when the dimensions changed (it can raise),
\* then save(output_path) opens output_path
R_SaveStart ==
    /\ step_pc = "r241"
    /\ \E resize_ok \in BOOLEAN :
          IF Changed /\ ~resize_ok
          THEN /\ step_pc' = "s194"
               /\ UNCHANGED <<output_path, step_log>>
          ELSE /\ output_path' = <<Partial(IF Changed THEN "resize" ELSE "save")>>
               /\ step_log' = Append(step_log,
                     LogEntry(SMART_RESIZE, IF Changed THEN "resize" ELSE "save",
                              "input_path", "output_path", "ok", FileAt("input_path")))
               /\ step_pc' = "r249w"
    /\ UNCHANGED <<step_input, step_fn, temp_path, step_dims, step_ret>>
    /\ UNCHANGED step_frame

\* lines 249 and 253: the image is written, or save raises on the way
R_SaveFinish ==
    /\ step_pc = "r249w"
    /\ \E sv \in SaveOutcomes :
          IF sv.kind = "raise"
          THEN step_pc' = "s194" /\ output_path' = output_path
          ELSE /\ output_path' =
                     <<FsFile(sv.size, step_dims[1].w, step_dims[1].h, "complete",
                              IF Changed THEN "resize" ELSE "save")>>
               /\ step_pc' = "r268"
    /\ UNCHANGED <<step_input, step_fn, temp_path, step_dims, step_log, step_ret>>
    /\ UNCHANGED step_frame

\* lines 256-269: pngquant from output_path to temp_path
R_Pngquant ==
    /\ step_pc = "r268"
    /\ \E q \in PngquantOutcomes(TRUE) :
          LET src == pngquant_source(SMART_RESIZE) IN
          /\ step_log' = Append(step_log,
                LogEntry(SMART_RESIZE, "pngquant", src, "temp_path", q.kind,
                         FileAt(src))
                   @@ [quality |-> quality(SMART_RESIZE,
                                           detect_content_type(step_input.name))])
          /\ temp_path' =
                IF q.kind = "ok"
                THEN <<FsFile(q.size, FileAt(src)[1].w, FileAt(src)[1].h,
                              "complete", "pngquant")>>
                ELSE temp_path
          /\ step_pc' = IF q.kind = "launch_fail" THEN "s194"
                        ELSE IF q.kind = "ok" THEN "r270" ELSE "r272"
    /\ UNCHANGED <<step_input, step_fn, output_path, step_dims, step_ret>>
    /\ UNCHANGED step_frame

\* line 270: shutil.move(temp_path, output_path)
R_Move ==
    /\ step_pc = "r270"
    /\ output_path' = temp_path
    /\ temp_path' = << >>
    /\ step_log' = Append(step_log,
          LogEntry(SMART_RESIZE, "move", "temp_path", "output_path", "ok", temp_path))
    /\ step_pc' = "r272"
    /\ UNCHANGED <<step_input, step_fn, step_dims, step_ret>>
    /\ UNCHANGED step_frame

\* lines 272 and 278: the stats with dimensions_changed as line 242 left it
R_Stat ==
    /\ step_pc = "r272"
    /\ step_ret' = <<[raised |-> FALSE, optimized_size |-> output_path[1].size,
                      dimensions_changed |-> Changed]>>
    /\ step_pc' = "returned"
    /\ UNCHANGED <<step_input, step_fn, output_path, temp_path, step_dims, step_log>>
    /\ UNCHANGED step_frame

\* the process is killed: the files stay as they are
Kill ==
    /\ step_pc \notin {"idle", "returned", "killed"}
    /\ step_pc' = "killed"
    /\ UNCHANGED <<step_input, step_fn, output_path, temp_path, step_dims, step_log,
                   step_ret>>
    /\ UNCHANGED step_frame

StepNext ==
    \/ S_Pngquant \/ S_Move \/ S_CopyStart \/ S_CopyFinish \/ S_Optipng \/ S_Stat
    \/ S_ExceptCopyStart \/ S_ExceptCopyFinish
    \/ R_Open \/ R_Dimensions \/ R_SaveStart \/ R_SaveFinish
    \/ R_Pngquant \/ R_Move \/ R_Stat
    \/ Kill

SpecSteps == StepInit /\ [][StepNext]_vars

----------------------------------------------------------------------------
(* SpecArchive: SmartOptimizer objects made at the times of a clock, each     *)
(* copying the assets into its own archive_dir                                *)

\* the clock has two ticks in a second
TicksPerSecond == 2

\* datetime.now().strftime('%Y%m%d_%H%M%S'): the day and the hour, minute and
\* second of the time; what is below a second is dropped
strftime(ticks) ==
    LET seconds == ticks \div TicksPerSecond IN
    <<seconds \div 86400, (seconds \div 3600) % 24, (seconds \div 60) % 60,
      seconds % 60>>

\* the directories under assets_archive
ArchiveDirs == {runs[i].archive_dir : i \in 1..Len(runs)}

\* the files backup_all_assets finds in the assets directory
ArchiveListing == <<kw_soldier \o ext_png, <<"j","u","n","g","l","e">> \o ext_wav>>

ArchiveInit ==
    /\ clock = 0
    /\ runs = << >>
    /\ archive_writes = << >>
    /\ PureIdle
    /\ RunIdle
    /\ StepIdle
    /\ AssetIdle
    /\ OthersIdle

\* time passes
Tick ==
    /\ clock < MaxClock
    /\ clock' = clock + 1
    /\ UNCHANGED <<runs, archive_writes>>
    /\ UNCHANGED archive_frame

\* SmartOptimizer(assets_dir), lines 34 and 39: the directory is named after
\* the time, and mkdir(exist_ok=True) takes a directory that is already there
Construct ==
    /\ Len(runs) < MaxRuns
    /\ runs' = Append(runs, [archive_dir |-> strftime(clock),
                             created |-> strftime(clock) \notin ArchiveDirs,
                             todo |-> ArchiveListing])
    /\ UNCHANGED <<clock, archive_writes>>
    /\ UNCHANGED archive_frame

\* lines 85-88 of one object, one file: copy2 replaces a file of that name
ArchiveCopy ==
    /\ \E i \in 1..Len(runs) :
          /\ runs[i].todo # << >>
          /\ archive_writes' = Append(archive_writes,
                [run |-> i, dir |-> runs[i].archive_dir, name |-> Head(runs[i].todo)])
          /\ runs' = [runs EXCEPT ![i].todo = Tail(@)]
    /\ UNCHANGED clock
    /\ UNCHANGED archive_frame

ArchiveNext == Tick \/ Construct \/ ArchiveCopy

SpecArchive == ArchiveInit /\ [][ArchiveNext]_vars

----------------------------------------------------------------------------
(* SpecAssets: AssetOptimizer.optimize_all of scripts/optimize_assets.py *)

\* the number of entries print_summary lists at most: sorted_savings[:5]
TopWins == 5

AssetTools == {"pngquant", "optipng", "ffmpeg", "cwebp"}

ext_webp == <<".","w","e","b","p">>

\* the PNG files of the assets directory, in listing order: one of each kind
\* optimize_png_smart tells apart and one more than print_summary lists,
\* tree.png being one pngquant cannot read
AssetPngs ==
    << File(kw_soldier \o ext_png, 3, 64, 64, TRUE),
       File(kw_tree \o ext_png, 2, 0, 0, FALSE),
       File(kw_skybox \o ext_png, 1, 64, 64, TRUE),
       File(kw_floor \o ext_png, 3, 64, 64, TRUE),
       File(<<"h","u","t">> \o ext_png, 2, 64, 64, TRUE),
       File(kw_palm \o ext_png, 1, 64, 64, TRUE) >>

AssetWavs == << File(<<"j","u","n","g","l","e">> \o ext_wav, 2, 0, 0, TRUE) >>

AssetDirectories ==
    {SubSeq(AssetPngs, 1, n) \o SubSeq(AssetWavs, 1, k) :
        n \in 0..Min(MaxFiles, Len(AssetPngs)), k \in 0..Len(AssetWavs)}

\* the branch optimize_png_smart takes, lines 76-100
png_strategy(name) ==
    LET n == lower(name) IN
    IF Contains(n, kw_soldier) \/ Contains(n, kw_enemy) THEN "optimize_sprite"
    ELSE IF \E x \in {kw_tree, kw_palm, kw_banyan, kw_fern, kw_elephant} :
                Contains(n, x) THEN "optimize_vegetation"
    ELSE IF Contains(n, kw_skybox) THEN "optimize_skybox"
    ELSE IF Contains(n, kw_floor) \/ Contains(n, kw_grass) THEN "optimize_texture"
    ELSE "optimize_png_hq"

\* optimize_sprite, optimize_vegetation, optimize_skybox, optimize_texture and
\* optimize_png_hq: pngquant with check=True writes output_path, optipng runs
\* on it unchecked, every exception is caught and gives False.
\* out is << >>, or <<the size of the file written at output_path>>
optimize_png_tier(f, q, o) ==
    IF q.kind \in {"launch_fail", "nonzero"} THEN [success |-> FALSE, out |-> << >>]
    ELSE IF q.kind = "no_output"
         THEN [success |-> o.kind # "launch_fail", out |-> << >>]
    ELSE IF o.kind = "launch_fail" THEN [success |-> FALSE, out |-> <<q.size>>]
    ELSE IF o.kind = "ok" THEN [success |-> TRUE, out |-> <<Min(o.size, q.size)>>]
    ELSE [success |-> TRUE, out |-> <<q.size>>]

\* lines 71-106: the called function catches its exceptions, so the except
\* clause of line 102 is not reached from it
optimize_png_smart(f, q, o) ==
    [strategy |-> png_strategy(f.name)] @@ optimize_png_tier(f, q, o)

\* AssetOptimizer.optimize_audio, lines 233-267: True when ffmpeg ran
ao_optimize_audio(f, r) == r.kind = "ok"

\* the entry of line 340 for a file and the size of its optimized version
SavingsEntry(f, new_size) ==
    [file |-> f.name, original |-> f.size, optimized |-> new_size,
     reduction |-> [num |-> (f.size - new_size) * 100, den |-> f.size]]

Saved(item) == item.original - item.optimized

\* sorted(..., key=lambda x: x['original'] - x['optimized'], reverse=True):
\* x goes behind the entries that save at least as much
RECURSIVE InsertBySaved(_, _)
InsertBySaved(sorted, x) ==
    IF sorted = << >> THEN <<x>>
    ELSE IF Saved(Head(sorted)) >= Saved(x)
         THEN <<Head(sorted)>> \o InsertBySaved(Tail(sorted), x)
         ELSE <<x>> \o sorted

\* the list is left in the order of stats['savings']
sorted_savings_unsorted(savings) == savings

RECURSIVE sorted_savings(_)
sorted_savings(savings) ==
    IF savings = << >> THEN << >>
    ELSE InsertBySaved(sorted_savings(SubSeq(savings, 1, Len(savings) - 1)),
                       savings[Len(savings)])

\* print_summary, lines 388-401: the entries it lists under "Top 5 improvements"
print_summary(st) ==
    IF st.files_processed > 0
    THEN SubSeq(sorted_savings(st.savings), 1, Min(TopWins, Len(st.savings)))
    ELSE << >>

\* main, line 419, and __init__, line 17: without an argument output_dir is
\* assets_dir / 'optimized'; an argument names another directory, or assets_dir
\* itself
ASSETS_DIR == "assets_dir"
OutputDirs == {"assets_dir/optimized", "elsewhere", ASSETS_DIR}

\* output_path = self.output_dir / png_file.name once optimize_png_smart(f) has
\* returned r: whether a file is there, its size, and whether the file written
\* is png_file itself.  In assets_dir output_path is input_path: pngquant
\* --force writes over it and optipng recompresses it in place.
OutputPath(f, dir, q, o, r) ==
    LET in_place == dir = ASSETS_DIR /\ q.kind = "no_output" /\ o.kind = "ok" IN
    [exists |-> r.out # << >> \/ dir = ASSETS_DIR,
     size |-> IF r.out # << >> THEN r.out[1]
              ELSE IF in_place THEN Min(o.size, f.size) ELSE f.size,
     overwritten |-> dir = ASSETS_DIR /\ (r.out # << >> \/ in_place)]

AssetNextPhase(pngs, wavs, tools) ==
    IF pngs # << >> THEN "png"
    ELSE IF "ffmpeg" \in tools /\ wavs # << >> THEN "wav"
    ELSE "summary"

AssetInit ==
    /\ ao_assets \in AssetDirectories
    /\ ao_pc = "start"
    /\ ao_tools = {}
    /\ ao_stats = AssetInitialStats
    /\ ao_png_todo = << >> /\ ao_wav_todo = << >>
    /\ ao_output_dir \in OutputDirs
    /\ ao_output = (IF ao_output_dir = ASSETS_DIR
                    THEN {ao_assets[i].name : i \in 1..Len(ao_assets)} ELSE {})
    /\ ao_overwritten = {}
    /\ ao_processed = << >> /\ ao_listed = << >> /\ ao_report = << >>
    /\ PureIdle
    /\ RunIdle
    /\ StepIdle
    /\ ArchiveIdle
    /\ OthersIdle

\* lines 306-321: without pngquant optimize_all returns
CheckTools ==
    /\ ao_pc = "start"
    /\ \E available \in SUBSET AssetTools :
          /\ ao_tools' = available
          /\ IF "pngquant" \notin available
             THEN ao_pc' = "returned" /\ UNCHANGED <<ao_png_todo, ao_wav_todo>>
             ELSE /\ ao_png_todo' = GlobPng(ao_assets)
                  /\ ao_wav_todo' = GlobWav(ao_assets)
                  /\ ao_pc' = AssetNextPhase(GlobPng(ao_assets), GlobWav(ao_assets),
                                             available)
    /\ UNCHANGED <<ao_assets, ao_stats, ao_output_dir, ao_output, ao_overwritten,
                   ao_processed, ao_listed, ao_report>>
    /\ UNCHANGED asset_frame

\* lines 323-351, one PNG file
OptimizePng ==
    /\ ao_pc = "png"
    /\ \E f \in {Head(ao_png_todo)} :
       \E q \in PngquantOutcomes(f.readable),
          o \in OptipngOutcomes(f.readable, MaxSize),
          webp_ok \in BOOLEAN :
       \E r \in {optimize_png_smart(f, q, o)} :
       \E out \in {OutputPath(f, ao_output_dir, q, o, r)} :
          /\ ao_processed' = Append(ao_processed,
                [name |-> f.name, success |-> r.success, pngquant |-> q.kind])
          /\ ao_overwritten' =
                IF out.overwritten THEN ao_overwritten \cup {f.name} ELSE ao_overwritten
          /\ IF r.success /\ out.exists
             THEN IF f.size = 0
                  THEN \* line 334 divides by original_size
                       /\ ao_pc' = "crashed"
                       /\ ao_output' = ao_output \cup {f.name}
                       /\ UNCHANGED <<ao_stats, ao_png_todo>>
                  ELSE /\ ao_stats' =
                            [ao_stats EXCEPT
                               !.original_size = @ + f.size,
                               !.optimized_size = @ + out.size,
                               !.files_processed = @ + 1,
                               !.savings = Append(@, SavingsEntry(f, out.size))]
                       /\ ao_output' =
                            ao_output \cup {f.name}
                               \cup (IF "cwebp" \in ao_tools /\ webp_ok
                                     THEN {SubSeq(f.name, 1, Len(f.name) - Len(ext_png))
                                              \o ext_webp}
                                     ELSE {})
                       /\ ao_png_todo' = Tail(ao_png_todo)
                       /\ ao_pc' = AssetNextPhase(Tail(ao_png_todo), ao_wav_todo, ao_tools)
             ELSE /\ ao_output' = IF out.exists THEN ao_output \cup {f.name}
                                  ELSE ao_output
                  /\ ao_stats' = ao_stats
                  /\ ao_png_todo' = Tail(ao_png_todo)
                  /\ ao_pc' = AssetNextPhase(Tail(ao_png_todo), ao_wav_todo, ao_tools)
    /\ UNCHANGED <<ao_assets, ao_tools, ao_wav_todo, ao_output_dir, ao_listed,
                   ao_report>>
    /\ UNCHANGED asset_frame

\* lines 358-376, one WAV file
ConvertWav ==
    /\ ao_pc = "wav"
    /\ \E f \in {Head(ao_wav_todo)} :
       \E r \in FfmpegOutcomes :
          /\ ao_processed' = Append(ao_processed,
                [name |-> f.name, success |-> ao_optimize_audio(f, r)])
          /\ IF ao_optimize_audio(f, r)
             THEN IF f.size = 0
                  THEN \* line 369 divides by original_size
                       /\ ao_pc' = "crashed"
                       /\ ao_output' = ao_output \cup {OggName(f.name)}
                       /\ UNCHANGED <<ao_stats, ao_wav_todo>>
                  ELSE /\ ao_stats' =
                            [ao_stats EXCEPT
                               !.original_size = @ + f.size,
                               !.optimized_size = @ + r.size,
                               !.files_processed = @ + 1]
                       /\ ao_output' = ao_output \cup {OggName(f.name)}
                       /\ ao_wav_todo' = Tail(ao_wav_todo)
                       /\ ao_pc' = AssetNextPhase(<< >>, Tail(ao_wav_todo), ao_tools)
             ELSE /\ UNCHANGED <<ao_stats, ao_output>>
                  /\ ao_wav_todo' = Tail(ao_wav_todo)
                  /\ ao_pc' = AssetNextPhase(<< >>, Tail(ao_wav_todo), ao_tools)
    /\ UNCHANGED <<ao_assets, ao_tools, ao_png_todo, ao_output_dir, ao_overwritten,
                   ao_listed, ao_report>>
    /\ UNCHANGED asset_frame

\* lines 378-380: print_summary and save_report
Summarize ==
    /\ ao_pc = "summary"
    /\ ao_listed' = <<print_summary(ao_stats)>>
    /\ ao_report' = <<ao_stats>>
    /\ ao_pc' = "done"
    /\ UNCHANGED <<ao_assets, ao_tools, ao_stats, ao_png_todo, ao_wav_todo,
                   ao_output_dir, ao_output, ao_overwritten, ao_processed>>
    /\ UNCHANGED asset_frame

AssetNext == CheckTools \/ OptimizePng \/ ConvertWav \/ Summarize

SpecAssets == AssetInit /\ [][AssetNext]_vars

----------------------------------------------------------------------------
(* SpecSummary: AssetOptimizer.print_summary on the stats a run can have built *)

\* the lists stats['savings'] can be after the PNG loop: for each file of the
\* directory, in listing order, no entry (it failed) or its entry
RECURSIVE SavingsLists(_)
SavingsLists(n) ==
    IF n = 0 THEN {<< >>}
    ELSE {l \o e : l \in SavingsLists(n - 1),
                   e \in {<< >>} \cup {<<SavingsEntry(AssetPngs[n], new_size)>> :
                                          new_size \in 1..MaxSize}}

\* self.stats with the counters of lines 337-339 for a list of entries
StatsOf(savings) ==
    [original_size |-> SumOver(savings, "original"),
     optimized_size |-> SumOver(savings, "optimized"),
     files_processed |-> Len(savings),
     savings |-> savings]

SummaryInit ==
    /\ ao_stats \in {StatsOf(l) : l \in SavingsLists(Len(AssetPngs))}
    /\ ao_pc = "print_summary"
    /\ ao_assets = << >> /\ ao_tools = {}
    /\ ao_png_todo = << >> /\ ao_wav_todo = << >> /\ ao_output = {}
    /\ ao_output_dir = "" /\ ao_overwritten = {}
    /\ ao_processed = << >> /\ ao_listed = << >> /\ ao_report = << >>
    /\ PureIdle
    /\ RunIdle
    /\ StepIdle
    /\ ArchiveIdle
    /\ OthersIdle

\* lines 382-401
PrintSummary ==
    /\ ao_pc = "print_summary"
    /\ ao_listed' = <<print_summary(ao_stats)>>
    /\ ao_pc' = "printed"
    /\ UNCHANGED <<ao_assets, ao_tools, ao_stats, ao_png_todo, ao_wav_todo,
                   ao_output_dir, ao_output, ao_overwritten, ao_processed, ao_report>>
    /\ UNCHANGED asset_frame

SummaryNext == PrintSummary

SpecSummary == SummaryInit /\ [][SummaryNext]_vars

----------------------------------------------------------------------------
(* SpecAudio: one call of SmartOptimizer.optimize_audio or of                 *)
(* AssetOptimizer.optimize_audio on a WAV file                                *)

\* the substrings the two functions look for in the lower-cased name
audio_kw ==
    [jungle |-> <<"j","u","n","g","l","e">>, ambient |-> <<"a","m","b","i","e","n","t">>,
     gunshot |-> <<"g","u","n","s","h","o","t">>, death |-> <<"d","e","a","t","h">>]

\* the levels of AssetOptimizer.optimize_audio with ambient and impact exchanged
asset_audio_quality_swapped(name) ==
    LET n == lower(name) IN
    IF Contains(n, audio_kw.jungle) THEN 6
    ELSE IF Contains(n, audio_kw.gunshot) \/ Contains(n, audio_kw.death) THEN 4
    ELSE 5

\* SmartOptimizer.optimize_audio, lines 291-295: the -q:a level
smart_audio_quality(name) ==
    LET n == lower(name) IN
    IF Contains(n, audio_kw.jungle) \/ Contains(n, audio_kw.ambient) THEN 5 ELSE 7

\* AssetOptimizer.optimize_audio, lines 242-251: the -q:a level
asset_audio_quality(name) ==
    LET n == lower(name) IN
    IF Contains(n, audio_kw.jungle) THEN 4
    ELSE IF Contains(n, audio_kw.gunshot) \/ Contains(n, audio_kw.death) THEN 6
    ELSE 5

\* AssetOptimizer.optimize_audio, lines 238-267: True with the OGG file written
\* when ffmpeg ran and exited with 0; every exception gives False, and nothing
\* is written then
AssetAudioResult(f, r) ==
    IF ao_optimize_audio(f, r)
    THEN Result(FALSE, TRUE, <<OutFile(r.size, 0, 0)>>, "ffmpeg", <<"ffmpeg:ok">>)
    ELSE Result(FALSE, FALSE, << >>, "", <<"ffmpeg:raise">>)

AudioFragments ==
    { audio_kw.jungle, <<"A","M","B","I","E","N","T">>, audio_kw.gunshot,
      <<"D","e","a","t","h">>, <<"s","t","e","p">> }

\* the WAV files: names of one or two fragments, of every size
AudioInputs ==
    {File(a \o b \o ext_wav, n, 0, 0, TRUE) :
        a \in AudioFragments \cup {<< >>}, b \in AudioFragments, n \in 0..MaxSize}

AudioInit ==
    /\ call_input \in AudioInputs
    /\ call_result = << >>
    /\ ClassifyIdle /\ SizingIdle
    /\ RunIdle
    /\ AuxIdle

\* SmartOptimizer.optimize_audio(input_path, output_dir)
CallOptimizeAudio ==
    /\ call_result = << >>
    /\ \E r \in FfmpegOutcomes :
          call_result' = <<[fn |-> "SmartOptimizer.optimize_audio",
                            quality |-> smart_audio_quality(call_input.name),
                            result |-> optimize_audio(call_input, r)]>>
    /\ UNCHANGED <<filename, calls, width, height, max_dimension, dims_result,
                   call_input>>
    /\ UNCHANGED run_vars
    /\ UNCHANGED aux_vars

\* AssetOptimizer.optimize_audio(input_path, output_path)
CallAssetOptimizeAudio ==
    /\ call_result = << >>
    /\ \E r \in FfmpegOutcomes :
          call_result' = <<[fn |-> "AssetOptimizer.optimize_audio",
                            quality |-> asset_audio_quality(call_input.name),
                            result |-> AssetAudioResult(call_input, r)]>>
    /\ UNCHANGED <<filename, calls, width, height, max_dimension, dims_result,
                   call_input>>
    /\ UNCHANGED run_vars
    /\ UNCHANGED aux_vars

AudioNext == CallOptimizeAudio \/ CallAssetOptimizeAudio

SpecAudio == AudioInit /\ [][AudioNext]_vars

----------------------------------------------------------------------------
(* SpecCompressor: AudioCompressor.run of scripts/compress_audio_simple.py.   *)
(* backup_dir is one directory for all the files: a backup has the name of    *)
(* its file, without the directory the file is in.                            *)

WavFile(dir, name, size) == [dir |-> dir, name |-> name, size |-> size]

\* self.assets_dir / 'RotorBlades.wav'
RotorBlades ==
    WavFile("assets", <<"R","o","t","o","r","B","l","a","d","e","s">> \o ext_wav, MaxSize)

\* the files public/assets/transmissions can hold: three sounds, one of them
\* empty and one named like the helicopter's, and a file that is no sound
TransmissionCandidates ==
    { WavFile("transmissions", RotorBlades.name, MaxSize),
      WavFile("transmissions", <<"a","l","p","h","a">> \o ext_wav, MaxSize),
      WavFile("transmissions", <<"b","r","a","v","o">> \o ext_wav, 0),
      WavFile("transmissions", <<"n","o","t","e","s",".","t","x","t">>, MaxSize) }

\* the listings of at most n different files
RECURSIVE TransmissionListings(_)
TransmissionListings(n) ==
    IF n = 0 THEN {<< >>}
    ELSE TransmissionListings(n - 1) \cup
         {Append(l, f) : l \in {k \in TransmissionListings(n - 1) : Len(k) = n - 1},
                         f \in TransmissionCandidates}

\* AudioCompressor(project_root): backup_dir is new and empty
CompressorInit ==
    /\ cp_pc = "start"
    /\ cp_transmissions \in
          {<< >>} \cup {<<l>> : l \in {k \in TransmissionListings(MaxFiles) :
                                         \A i, j \in 1..Len(k) : i # j => k[i] # k[j]}}
    /\ cp_wavs \in
          {rotor \cup {l[i] : i \in 1..Len(l)} :
              rotor \in SUBSET {RotorBlades},
              l \in {IF cp_transmissions = << >> THEN << >> ELSE cp_transmissions[1]}}
    /\ cp_todo = << >> /\ cp_cur = << >> /\ cp_backup = {} /\ cp_ogg = {}
    /\ cp_log = << >>
    /\ PureIdle
    /\ RunIdle
    /\ StepIdle /\ ArchiveIdle /\ AssetIdle
    /\ TextureIdle

\* run, lines 119-120, and check_ffmpeg
CheckFfmpeg ==
    /\ cp_pc = "start"
    /\ \E found \in BOOLEAN : cp_pc' = IF found THEN "helicopter" ELSE "returned"
    /\ UNCHANGED <<cp_transmissions, cp_wavs, cp_todo, cp_cur, cp_backup, cp_ogg,
                   cp_log>>
    /\ UNCHANGED compressor_frame

\* process_helicopter_audio, lines 76-86, up to the call of backup_original
ProcessHelicopterAudio ==
    /\ cp_pc = "helicopter"
    /\ IF RotorBlades \in cp_wavs
       THEN cp_cur' = <<RotorBlades>> /\ cp_pc' = "backup"
       ELSE cp_cur' = cp_cur /\ cp_pc' = "transmissions"
    /\ UNCHANGED <<cp_transmissions, cp_wavs, cp_todo, cp_backup, cp_ogg, cp_log>>
    /\ UNCHANGED compressor_frame

\* process_transmissions, lines 90-102
ProcessTransmissions ==
    /\ cp_pc = "transmissions"
    /\ IF cp_transmissions = << >> \/ GlobWav(cp_transmissions[1]) = << >>
       THEN cp_pc' = "returned" /\ cp_todo' = cp_todo
       ELSE cp_pc' = "next" /\ cp_todo' = GlobWav(cp_transmissions[1])
    /\ UNCHANGED <<cp_transmissions, cp_wavs, cp_cur, cp_backup, cp_ogg, cp_log>>
    /\ UNCHANGED compressor_frame

\* lines 105-106, and 111-112 after the last file
NextTransmission ==
    /\ cp_pc = "next"
    /\ IF cp_todo = << >>
       THEN cp_pc' = "returned" /\ UNCHANGED <<cp_cur, cp_todo>>
       ELSE cp_cur' = <<Head(cp_todo)>> /\ cp_todo' = Tail(cp_todo) /\ cp_pc' = "backup"
    /\ UNCHANGED <<cp_transmissions, cp_wavs, cp_backup, cp_ogg, cp_log>>
    /\ UNCHANGED compressor_frame

\* the file at self.backup_dir / file_path.name: the file it was copied from
\* and whether it was copied to the end
BackupFile(f, state) == [name |-> f.name, of |-> f, state |-> state]

\* backup_original, lines 35-36: shutil.copy2 opens backup_path, emptying a
\* file of that name, and fills it; it can raise before or while it writes,
\* and its exception is caught nowhere
BackupOriginal ==
    /\ cp_pc = "backup"
    /\ \E copy \in {"ok", "raise_before", "raise_partial"} :
          /\ cp_backup' =
                IF copy = "raise_before" THEN cp_backup
                ELSE {b \in cp_backup : b.name # cp_cur[1].name}
                        \cup {BackupFile(cp_cur[1],
                                         IF copy = "ok" THEN "complete" ELSE "partial")}
          /\ cp_pc' = IF copy = "ok" THEN "compress" ELSE "crashed"
          /\ cp_log' = Append(cp_log, [op |-> "backup", file |-> cp_cur[1],
                                       exit |-> copy])
    /\ UNCHANGED <<cp_transmissions, cp_wavs, cp_todo, cp_cur, cp_ogg>>
    /\ UNCHANGED compressor_frame

\* ffmpeg, line 53: exit 0 with the .ogg file, exit 0 without it, a non-zero
\* exit, or subprocess.run raising because it cannot be launched
CompressorFfmpegOutcomes == {"ok", "no_output", "nonzero", "launch_fail"}

\* a complete copy of f is in backup_dir
HasBackup(f) == BackupFile(f, "complete") \in cp_backup

\* compress_audio, lines 39-72, and the return to the loop: the WAV is unlinked
\* at line 64 after exit 0 with the output there; line 59 divides by the size
\* of the WAV, and every exception gives False
CompressAudio ==
    /\ cp_pc = "compress"
    /\ \E f \in {cp_cur[1]}, r \in CompressorFfmpegOutcomes, unlink_ok \in BOOLEAN :
          LET deleted == r = "ok" /\ f.size # 0 /\ unlink_ok IN
          /\ cp_ogg' = IF r = "ok" THEN cp_ogg \cup {f} ELSE cp_ogg
          /\ cp_wavs' = IF deleted THEN cp_wavs \ {f} ELSE cp_wavs
          /\ cp_log' = Append(cp_log,
                [op |-> IF deleted THEN "unlink" ELSE "failed", file |-> f, exit |-> r,
                 backup |-> HasBackup(f), ogg |-> r = "ok"])
          /\ cp_pc' = IF f.dir = "assets" THEN "transmissions" ELSE "next"
          /\ cp_cur' = << >>
    /\ UNCHANGED <<cp_transmissions, cp_todo, cp_backup>>
    /\ UNCHANGED compressor_frame

CompressorNext ==
    \/ CheckFfmpeg \/ ProcessHelicopterAudio \/ ProcessTransmissions
    \/ NextTransmission \/ BackupOriginal \/ CompressAudio

SpecCompressor == CompressorInit /\ [][CompressorNext]_vars

----------------------------------------------------------------------------
(* SpecTextures: main of compress_textures.py, executed again and again on    *)
(* the same directories.  The content of a file is "absent", "original" (the  *)
(* image as it was made), "empty" (no bytes), "compressed" (what              *)
(* compress_texture saves), "partial_copy" (what a shutil.copy2 that raised   *)
(* while writing leaves) or "partial_save" (the same of Image.save).          *)

\* the keys of TEXTURE_CONFIGS, in the order of the dict
TEXTURE_CONFIGS ==
    <<"forestfloor.png", "grass.png", "tree.png", "mushroom.png", "imp.png",
      "attacker.png", "skybox.png">>

\* the model keeps the first MaxFiles of them
Textures == SubSeq(TEXTURE_CONFIGS, 1, Min(MaxFiles, Len(TEXTURE_CONFIGS)))

TextureNames == {Textures[i] : i \in 1..Len(Textures)}

\* os.path.getsize, in units that keep a file with bytes above zero
TextureSize(content) == IF content \in {"absent", "empty"} THEN 0 ELSE 1

\* shutil.copy2(src, dst): the content of dst afterwards, when the copy is
\* made, when it raises before dst is opened and when it raises while writing
copy2(src, dst, outcome) ==
    IF outcome = "ok" \/ (src = "empty" /\ outcome = "raise_partial") THEN src
    ELSE IF outcome = "raise_partial" THEN "partial_copy"
    ELSE dst

CopyOutcomes == {"ok", "raise_before", "raise_partial"}

\* compress_texture(input_path, input_path, config), lines 75-133: the content
\* of the texture afterwards.  Image.open raises on a file that is no image;
\* otherwise the image is saved over the file at line 125, or something raises
\* before that, or the save raises while writing
compress_texture(content, outcome) ==
    IF outcome = "ok" THEN "compressed"
    ELSE IF outcome = "raise_partial" THEN "partial_save"
    ELSE content

CompressOutcomes(content) ==
    IF content \in {"original", "compressed"}
    THEN {"ok", "raise_before", "raise_partial"}
    ELSE {"raise_before"}

\* the except clause without the copy of line 177
restore_skipped(backup, working, outcome) == working

\* lines 176-177: shutil.copy2(backup_path, input_path)
restore(backup, working, outcome) == copy2(backup, working, outcome)

TextureInit ==
    /\ tx_pc = "idle"
    /\ tx_run = 0
    /\ tx_files \in [TextureNames -> {"absent", "original", "empty"}]
    /\ tx_backup = [n \in TextureNames |-> "absent"]
    /\ tx_todo = << >>
    /\ tx_total = 0
    /\ tx_log = << >>
    /\ tx_initial = tx_files
    /\ PureIdle
    /\ RunIdle
    /\ StepIdle /\ ArchiveIdle /\ AssetIdle
    /\ CompressorIdle

\* main, lines 136-152: an execution begins, after the ones before have ended
T_Main ==
    /\ tx_pc \in {"idle", "returned", "crashed"}
    /\ tx_run < MaxRuns
    /\ tx_run' = tx_run + 1
    /\ tx_todo' = Textures
    /\ tx_total' = 0
    /\ tx_log' = << >>
    /\ tx_pc' = "loop"
    /\ UNCHANGED <<tx_files, tx_backup, tx_initial>>
    /\ UNCHANGED texture_frame

\* lines 152-157: the next texture, skipped when its file is not there
T_Next ==
    /\ tx_pc = "loop"
    /\ IF tx_todo = << >>
       THEN tx_pc' = "summary" /\ UNCHANGED <<tx_todo, tx_log>>
       ELSE IF tx_files[Head(tx_todo)] = "absent"
       THEN /\ tx_log' = Append(tx_log, [name |-> Head(tx_todo), op |-> "skipped",
                                         how |-> ""])
            /\ tx_todo' = Tail(tx_todo)
            /\ tx_pc' = tx_pc
       ELSE tx_pc' = "backup" /\ UNCHANGED <<tx_todo, tx_log>>
    /\ UNCHANGED <<tx_run, tx_files, tx_backup, tx_total, tx_initial>>
    /\ UNCHANGED texture_frame

\* lines 160-163: the copy is made when no file is at backup_path; an
\* exception of copy2 ends main
T_Backup ==
    /\ tx_pc = "backup"
    /\ \E n \in {Head(tx_todo)} :
          IF tx_backup[n] # "absent"
          THEN tx_pc' = "compress" /\ tx_backup' = tx_backup
          ELSE \E outcome \in CopyOutcomes :
                  /\ tx_backup' =
                        [tx_backup EXCEPT ![n] = copy2(tx_files[n], @, outcome)]
                  /\ tx_pc' = IF outcome = "ok" THEN "compress" ELSE "crashed"
    /\ UNCHANGED <<tx_run, tx_files, tx_todo, tx_total, tx_log, tx_initial>>
    /\ UNCHANGED texture_frame

\* lines 166-174: the texture is compressed in place
T_Compress ==
    /\ tx_pc = "compress"
    /\ \E n \in {Head(tx_todo)} :
       \E outcome \in CompressOutcomes(tx_files[n]) :
          /\ tx_total' = tx_total + TextureSize(tx_files[n])
          /\ tx_files' = [tx_files EXCEPT ![n] = compress_texture(@, outcome)]
          /\ tx_log' = Append(tx_log,
                [name |-> n, op |-> IF outcome = "ok" THEN "compressed" ELSE "failed",
                 how |-> outcome])
          /\ IF outcome = "ok"
             THEN tx_todo' = Tail(tx_todo) /\ tx_pc' = "loop"
             ELSE tx_todo' = tx_todo /\ tx_pc' = "restore"
    /\ UNCHANGED <<tx_run, tx_backup, tx_initial>>
    /\ UNCHANGED texture_frame

\* lines 175-178, in the except clause: an exception of this copy2 ends main
T_Restore ==
    /\ tx_pc = "restore"
    /\ \E n \in {Head(tx_todo)} :
          IF tx_backup[n] = "absent"
          THEN tx_todo' = Tail(tx_todo) /\ tx_pc' = "loop" /\ tx_files' = tx_files
          ELSE \E outcome \in CopyOutcomes :
                  /\ tx_files' =
                        [tx_files EXCEPT ![n] = restore(tx_backup[n], @, outcome)]
                  /\ IF outcome = "ok"
                     THEN tx_todo' = Tail(tx_todo) /\ tx_pc' = "loop"
                     ELSE tx_todo' = tx_todo /\ tx_pc' = "crashed"
    /\ UNCHANGED <<tx_run, tx_backup, tx_total, tx_log, tx_initial>>
    /\ UNCHANGED texture_frame

\* lines 180-193: line 186 divides by total_original
T_Summary ==
    /\ tx_pc = "summary"
    /\ tx_pc' = IF tx_total = 0 THEN "crashed" ELSE "returned"
    /\ UNCHANGED <<tx_run, tx_files, tx_backup, tx_todo, tx_total, tx_log, tx_initial>>
    /\ UNCHANGED texture_frame

TextureNext ==
    T_Main \/ T_Next \/ T_Backup \/ T_Compress \/ T_Restore \/ T_Summary

SpecTextures == TextureInit /\ [][TextureNext]_vars

----------------------------------------------------------------------------
(* SpecClassify: detect_content_type on bounded names *)

Fragments ==
    { kw_soldier, <<"E","n","e","m","y">>, kw_tree, <<"P","A","L","M">>,
      kw_fern, kw_skybox, kw_floor, <<"G","r","o","u","n","d">>,
      kw_first_person, <<"u">>, <<"i">>, <<"x">>, <<"t","r">>, <<"e","e">>,
      <<".","p","n","g">> }

RECURSIVE NamesOfParts(_)
NamesOfParts(n) ==
    IF n = 0 THEN {<< >>}
    ELSE {a \o b : a \in NamesOfParts(n - 1), b \in Fragments}

Names == UNION {NamesOfParts(n) : n \in 1..MaxParts}

\* the spellings of one name that differ in case only
CaseVariants(name) == {name, lower(name), upper(name)}

ClassifyInit ==
    /\ filename \in Names
    /\ calls = << >>
    /\ SizingIdle /\ PngIdle
    /\ RunIdle
    /\ AuxIdle

Classify ==
    /\ Len(calls) < MaxCalls
    /\ \E arg \in CaseVariants(filename) :
          calls' = Append(calls, [arg |-> arg, ret |-> detect_content_type(arg)])
    /\ UNCHANGED <<filename, width, height, max_dimension, dims_result,
                   call_input, call_result>>
    /\ UNCHANGED run_vars
    /\ UNCHANGED aux_vars

ClassifyNext == Classify

SpecClassify == ClassifyInit /\ [][ClassifyNext]_vars

----------------------------------------------------------------------------
(* SpecSizing: calculate_new_dimensions on bounded sizes *)

\* sizes where the rounding of width / height changes the truncated result
RoundingDims == {279, 465, 640, 768}

Dims ==
    {n \in {b * 512 + d : b \in 0..MaxBlocks, d \in (0 - MaxOff)..MaxOff} : n >= 0}
        \cup RoundingDims

\* the maxima of the sizing rules, the default, and maxima no rule has
MaxDimensions == {MaxDimensionFor(c) : c \in ContentTypes} \cup {1, 3, 513}

SizingInit ==
    /\ width \in Dims
    /\ height \in Dims
    /\ max_dimension \in MaxDimensions
    /\ dims_result = << >>
    /\ ClassifyIdle /\ PngIdle
    /\ RunIdle
    /\ AuxIdle

Calculate ==
    /\ dims_result = << >>
    /\ dims_result' = <<calculate_new_dimensions(width, height, max_dimension)>>
    /\ UNCHANGED <<filename, calls, width, height, max_dimension,
                   call_input, call_result>>
    /\ UNCHANGED run_vars
    /\ UNCHANGED aux_vars

SizingNext == Calculate

SpecSizing == SizingInit /\ [][SizingNext]_vars

----------------------------------------------------------------------------
(* Claims about run_optimization (Spec) *)

Terminated == pc \in {"done", "crashed", "aborted"}

HasExtension(f) == Contains(f.name, <<".">>)

InArchive(f) == [name |-> f.name, size |-> f.size] \in archive

\* the assets run_optimization transforms, in the order it takes them
Batch == GlobPng(assets) \o GlobWav(assets)

Recorded(f) == \E i \in 1..Len(stats.files) : stats.files[i].name = f.name

C2_BackupFailureStopsRun ==
    copy_failed
        => /\ pc = "crashed"
           /\ ~ENABLED Next
           /\ ~stats.backup_created
           /\ handed = << >>
           /\ optimized_dir = {} /\ optimized_resize_dir = {}
           /\ stats.files = << >>
           /\ report = << >>

\* the copy of a later file failed: the archive holds a part of the directory
C2_Witness ==
    /\ copy_failed
    /\ archive # {}
    /\ \E i \in 1..Len(assets) : HasExtension(assets[i]) /\ ~InArchive(assets[i])

C5_ReportAfterBackup ==
    (Terminated /\ stats.backup_created) => report # << >>

\* a zero-byte file, an image that does not open, a sound that does not decode
Degenerate(f) == f.size = 0 \/ ~f.readable

\* C6: a degenerate asset affects only itself: in a run that got past the backup
\* and has ended, every asset that follows a degenerate one in the batch has
\* been processed and recorded.
C6_DegenerateAssetIsolated ==
    (Terminated /\ stats.backup_created)
        => \A i, j \in 1..Len(Batch) :
              (i < j /\ Degenerate(Batch[i])) => Recorded(Batch[j])

\* C18: stats additivity: when generate_report runs, original_total_size,
\* optimized_size and optimized_resize_size of self.stats are the sums of
\* original_size, optimized_size and optimized_resize_size over stats['files'].
C18_StatsAdditive ==
    (pc = "report" \/ report # << >>)
        => /\ stats.original_total_size = SumOver(stats.files, "original_size")
           /\ stats.optimized_size = SumOver(stats.files, "optimized_size")
           /\ stats.optimized_resize_size =
                 SumOver(stats.files, "optimized_resize_size")

----------------------------------------------------------------------------
(* Claims about the PNG optimize functions (SpecPng) *)

\* C3: copy-through totality: whatever pngquant and optipng do (non-zero exit, no
\* output file, failure to launch), optimize_png_same_size and
\* optimize_png_smart_resize return without raising, a file is at output_path,
\* and the optimized_size returned is the size of that file.
C3_CopyThroughTotal ==
    call_result # << >>
        => LET r == call_result[1].result IN
           /\ ~r.raised
           /\ r.out # << >>
           /\ r.stats.optimized_size = r.out[1].size

\* optimize_png_smart_resize returned the plain copy after pngquant could not be
\* launched
C3_Witness ==
    /\ call_result # << >>
    /\ call_result[1].fn = "optimize_png_smart_resize"
    /\ call_result[1].result.by = "copy"
    /\ \E i \in 1..Len(call_result[1].result.ops) :
          call_result[1].result.ops[i] = "pngquant:raise"
    /\ call_result[1].result.out = <<OutFile(call_input.size, call_input.w, call_input.h)>>

----------------------------------------------------------------------------
(* Claims about the optimize_audio functions (SpecAudio) *)

SMART_AUDIO == "SmartOptimizer.optimize_audio"
ASSET_AUDIO == "AssetOptimizer.optimize_audio"

\* the level a function selects for a name
AudioLevel(fn, name) ==
    IF fn = SMART_AUDIO THEN smart_audio_quality(name) ELSE asset_audio_quality(name)

\* an ambient name: one with "jungle", or with "ambient" in SmartOptimizer
AmbientName(fn, name) ==
    \/ Contains(lower(name), audio_kw.jungle)
    \/ fn = SMART_AUDIO /\ Contains(lower(name), audio_kw.ambient)

\* an impact/SFX name: one with "gunshot" or "death" that is not an ambient name
ImpactName(fn, name) ==
    /\ Contains(lower(name), audio_kw.gunshot) \/ Contains(lower(name), audio_kw.death)
    /\ ~AmbientName(fn, name)

\* C22: audio quality tiers: every call selects one quality level for the WAV
\* name, the level of the function for that name, and in both functions the
\* level selected for an ambient name is strictly lower than the level the
\* function selects for every impact/SFX name (a name with "gunshot" or "death"
\* and no ambient substring: the ambient test comes first).
C22_AudioQualityTiers ==
    call_result # << >>
        => LET c == call_result[1] IN
           /\ c.quality \in 0..10
           /\ c.quality = AudioLevel(c.fn, call_input.name)
           /\ AmbientName(c.fn, call_input.name)
                 => \A g \in AudioInputs :
                       ImpactName(c.fn, g.name) => c.quality < AudioLevel(c.fn, g.name)
           /\ ImpactName(c.fn, call_input.name)
                 => \A g \in AudioInputs :
                       AmbientName(c.fn, g.name) => AudioLevel(c.fn, g.name) < c.quality

\* AssetOptimizer.optimize_audio selected level 4 for a name that has "jungle"
\* and "gunshot", and SmartOptimizer.optimize_audio level 7 for a "death" name
C22_Witness ==
    /\ call_result # << >>
    /\ \/ /\ call_result[1].fn = ASSET_AUDIO
          /\ Contains(lower(call_input.name), audio_kw.jungle)
          /\ Contains(lower(call_input.name), audio_kw.gunshot)
          /\ call_result[1].quality = 4
       \/ /\ call_result[1].fn = SMART_AUDIO
          /\ ImpactName(SMART_AUDIO, call_input.name)
          /\ call_result[1].quality = 7

\* C23: audio fallback chain: a call of optimize_audio runs ffmpeg first; when
\* the result is not the transcoded OGG, a format-preserving re-encode was
\* tried between the transcode and the copy, and the copy of the WAV is at the
\* output path.
C23_AudioFallbackChain ==
    call_result # << >>
        => LET r == call_result[1].result IN
           /\ r.ops # << >>
           /\ r.ops[1] \in {"ffmpeg:ok", "ffmpeg:raise"}
           /\ r.by # "ffmpeg"
                 => /\ Len(r.ops) = 3
                    /\ r.ops[3] = "copy"
                    /\ r.by = "copy"
                    /\ r.out = <<OutFile(call_input.size, 0, 0)>>

----------------------------------------------------------------------------
(* Claims about AudioCompressor (SpecCompressor) *)

\* C28: a WAV file is deleted only when its complete backup is in backup_dir,
\* ffmpeg exited with 0 and the .ogg file exists; after a compression that
\* failed or raised the WAV is still there; and at every point of the run each
\* sound handed to backup_original exists as the original WAV or as a complete
\* backup copy of it.
C28_OriginalOrBackup ==
    \A i \in 1..Len(cp_log) :
        /\ cp_log[i].op = "unlink"
              => cp_log[i].backup /\ cp_log[i].exit = "ok" /\ cp_log[i].ogg
        /\ cp_log[i].op = "failed" => cp_log[i].file \in cp_wavs
        /\ cp_log[i].op = "backup"
              => cp_log[i].file \in cp_wavs \/ HasBackup(cp_log[i].file)

----------------------------------------------------------------------------
(* Claims about compress_textures.main (SpecTextures) *)

\* C29: over any number of executions, a texture whose file is no longer what
\* it was before its first compression has a backup that holds that content:
\* it was overwritten only after the backup copy existed, and the backup was
\* not overwritten since.
C29_BackupKeepsOriginal ==
    \A n \in DOMAIN tx_files :
        tx_files[n] # tx_initial[n] => tx_backup[n] = tx_initial[n]

\* the entries of the log of this execution for a texture
TextureEvents(n, ops) ==
    {i \in 1..Len(tx_log) : tx_log[i].name = n /\ tx_log[i].op \in ops}

\* C30: when main has returned, every texture whose compression raised is
\* byte-identical to its backup copy, and every configured texture whose file
\* exists was taken by the loop, also after one that failed.
C30_FailedTextureRestored ==
    tx_pc = "returned"
        => \A n \in DOMAIN tx_files :
              /\ TextureEvents(n, {"failed"}) # {} => tx_files[n] = tx_backup[n]
              /\ tx_files[n] # "absent"
                    => TextureEvents(n, {"compressed", "failed"}) # {}

\* main returned after the save of the first texture raised while writing: the
\* file is the original again, like its backup, and the second texture was
\* compressed after that
C30_Witness ==
    /\ tx_pc = "returned"
    /\ \E i \in TextureEvents(Textures[1], {"failed"}) :
          /\ tx_log[i].how = "raise_partial"
          /\ \E j \in TextureEvents(Textures[2], {"compressed"}) : i < j
    /\ tx_files[Textures[1]] = "original"
    /\ tx_backup[Textures[1]] = "original"
    /\ tx_files[Textures[2]] = "compressed"

----------------------------------------------------------------------------
(* Claims about detect_content_type (SpecClassify) *)

\* the rules as the claims state them: the categories in their fixed order and
\* the substrings that select each
RuleOrder == <<"soldier", "tree", "foliage", "skybox", "texture", "ui">>

RuleKeywords ==
    [soldier |-> {kw_soldier, kw_enemy},
     tree    |-> {kw_dipterocarp, kw_banyan, kw_coconut, kw_palm, kw_tree},
     foliage |-> {kw_fern, kw_elephant, kw_grass},
     skybox  |-> {kw_skybox},
     texture |-> {kw_floor, kw_ground},
     ui      |-> {kw_first_person, kw_ui}]

RuleMatches(i, n) == \E k \in RuleKeywords[RuleOrder[i]] : Contains(n, k)

\* C7: detect_content_type is total and deterministic: every call returns one of
\* the seven content types, a name that matches no rule gives misc, and two names
\* that differ only in the case of their letters get the same content type.
C7_TotalCaseInsensitive ==
    \A i \in 1..Len(calls) :
        /\ calls[i].ret \in ContentTypes
        /\ (\A r \in 1..Len(RuleOrder) : ~RuleMatches(r, lower(calls[i].arg)))
               => calls[i].ret = "misc"
        /\ \A j \in 1..Len(calls) :
               lower(calls[i].arg) = lower(calls[j].arg) => calls[i].ret = calls[j].ret

\* two spellings of one name were classified, and not as misc
C7_Witness ==
    /\ Len(calls) = 2
    /\ calls[1].arg # calls[2].arg
    /\ calls[1].ret = "tree"
    /\ calls[2].ret = "tree"

\* C8: first-match precedence: the content type returned is the one of the earliest
\* rule, in the order soldier, tree, foliage, skybox, texture, ui, that the
\* lower-cased name matches; a name with "enemy" and "tree" is a soldier, and a name
\* with "tree" and "floor" (and no soldier substring, the one rule before tree's)
\* is a tree.
C8_FirstMatch ==
    \A i \in 1..Len(calls) :
        LET n == lower(calls[i].arg) IN
        /\ \A r \in 1..Len(RuleOrder) :
               (RuleMatches(r, n) /\ \A q \in 1..(r - 1) : ~RuleMatches(q, n))
                   => calls[i].ret = RuleOrder[r]
        /\ (Contains(n, kw_enemy) /\ Contains(n, kw_tree)) => calls[i].ret = "soldier"
        /\ (Contains(n, kw_tree) /\ Contains(n, kw_floor) /\ ~RuleMatches(1, n))
               => calls[i].ret = "tree"

\* a name with "tree" and "floor" was classified as a tree
C8_Witness ==
    \E i \in 1..Len(calls) :
        /\ Contains(lower(calls[i].arg), kw_tree)
        /\ Contains(lower(calls[i].arg), kw_floor)
        /\ calls[i].ret = "tree"

----------------------------------------------------------------------------
(* Claims about calculate_new_dimensions (SpecSizing) *)

\* the max_dimension a content type can have: the sizing rules and the default
CategoryMaxDimensions == {MaxDimensionFor(c) : c \in ContentTypes}

\* C9: no upscaling: when width and height are both at most max_dimension, the
\* call returns (width, height) unchanged, for every max_dimension.
C9_NoUpscale ==
    (dims_result # << >> /\ width <= max_dimension /\ height <= max_dimension)
        => dims_result[1] = Returned(width, height)

\* a 1024x2048 image under the tree maximum 2048 was returned unchanged
C9_Witness ==
    /\ width = 1024 /\ height = 2048 /\ max_dimension = sizing_rules["tree"]
    /\ dims_result = <<Returned(1024, 2048)>>

\* C10: downscale clamp: for an image (width >= 1, height >= 1) with a dimension
\* above a content type's max_dimension, the call returns (newW, newH) with
\* max(newW, newH) = max_dimension, newW <= width and newH <= height.
C10_DownscaleClamp ==
    ( /\ dims_result # << >>
      /\ width >= 1 /\ height >= 1
      /\ max_dimension \in CategoryMaxDimensions
      /\ (width > max_dimension \/ height > max_dimension) )
        => /\ ~dims_result[1].raised
           /\ Max(dims_result[1].w, dims_result[1].h) = max_dimension
           /\ dims_result[1].w <= width
           /\ dims_result[1].h <= height

\* a 4096x4096 image under the texture maximum 512 became 512x512
C10_Witness ==
    /\ width = 4096 /\ height = 4096 /\ max_dimension = sizing_rules["texture"]
    /\ dims_result = <<Returned(512, 512)>>

\* the call returned dimensions
ReturnedDimensions == dims_result # << >> /\ ~dims_result[1].raised

Even(n) == n % 2 = 0

\* C11 as stated: for every (width, height) and every content type's
\* max_dimension, both dimensions the call returns are even.
C11_AlwaysEven ==
    (ReturnedDimensions /\ max_dimension \in CategoryMaxDimensions)
        => Even(dims_result[1].w) /\ Even(dims_result[1].h)

\* C11 amended: both returned dimensions are even whenever a dimension is above
\* max_dimension; an input that fits is returned as it is, odd or even.
C11_EvenWhenDownscaled ==
    /\ (ReturnedDimensions /\ (width > max_dimension \/ height > max_dimension))
          => Even(dims_result[1].w) /\ Even(dims_result[1].h)
    /\ (ReturnedDimensions /\ width <= max_dimension /\ height <= max_dimension)
          => dims_result[1].w = width /\ dims_result[1].h = height

\* a 1025x511 image under the texture maximum 512: 255 was lowered to 254
C11_Witness ==
    /\ width = 1025 /\ height = 511 /\ max_dimension = sizing_rules["texture"]
    /\ dims_result = <<Returned(512, 254)>>

\* C12: zero-area input fails fast: for width = 0 or height = 0 the call neither
\* returns dimensions nor divides by zero (Raised is the ZeroDivisionError of
\* line 147); it reports the input as invalid in some other way.
C12_ZeroAreaFailsFast ==
    (dims_result # << >> /\ (width = 0 \/ height = 0))
        => /\ dims_result[1].raised
           /\ dims_result[1] # Raised

\* C13: aspect ratio preserved: for an image (width >= 1, height >= 1) with a
\* dimension above a content type's max_dimension, the dimension that is not
\* clamped differs from max_dimension * shorter / longer by less than 2.
C13_AspectRatioPreserved ==
    ( /\ dims_result # << >>
      /\ width >= 1 /\ height >= 1
      /\ max_dimension \in CategoryMaxDimensions
      /\ (width > max_dimension \/ height > max_dimension) )
        => /\ ~dims_result[1].raised
           /\ IF width > height
              THEN LET off == dims_result[1].h * width - max_dimension * height
                   IN  off < 2 * width /\ 0 - off < 2 * width
              ELSE LET off == dims_result[1].w * height - max_dimension * width
                   IN  off < 2 * height /\ 0 - off < 2 * height

\* C27: for every width >= 1, height >= 1 and max_dimension >= 2 the call
\* returns dimensions that are both >= 1.
C27_DimensionsAtLeastOne ==
    (dims_result # << >> /\ width >= 1 /\ height >= 1 /\ max_dimension >= 2)
        => /\ ~dims_result[1].raised
           /\ dims_result[1].w >= 1
           /\ dims_result[1].h >= 1

----------------------------------------------------------------------------
(* Claims about the steps of the PNG optimize functions (SpecSteps) *)

\* the positions of the log where pngquant was invoked by the given function
PngquantRuns(fn) ==
    {i \in 1..Len(step_log) : step_log[i].op = "pngquant" /\ step_log[i].fn = fn}

\* C14: resize precedes lossy compression: every time optimize_png_smart_resize
\* invokes pngquant, Image.save has written output_path before (the resized
\* image when the dimensions of line 238 differ from the native ones), pngquant
\* reads output_path, and the file it reads is that complete, saved image with
\* the new dimensions; no resize follows an invocation of pngquant.
C14_ResizeBeforeLossy ==
    /\ \A i \in PngquantRuns(SMART_RESIZE) :
          /\ step_dims # << >>
          /\ \E j \in 1..(i - 1) :
                /\ step_log[j].fn = SMART_RESIZE
                /\ step_log[j].dst = "output_path"
                /\ step_log[j].op = (IF Changed THEN "resize" ELSE "save")
          /\ step_log[i].src = "output_path"
          /\ step_log[i].input # << >>
          /\ step_log[i].input[1].state = "complete"
          /\ step_log[i].input[1].by = (IF Changed THEN "resize" ELSE "save")
          /\ step_log[i].input[1].w = step_dims[1].w
          /\ step_log[i].input[1].h = step_dims[1].h
    /\ \A i, j \in 1..Len(step_log) :
          (i < j /\ step_log[i].op = "pngquant") => step_log[j].op # "resize"

\* soldier.png, 2048x4096, was resized to 512x1024, pngquant ran on the resized
\* file and its output was moved to output_path
C14_Witness ==
    /\ step_pc = "returned"
    /\ step_fn = SMART_RESIZE
    /\ step_dims = <<Returned(512, 1024)>>
    /\ step_input.w = 2048 /\ step_input.h = 4096
    /\ \E i \in PngquantRuns(SMART_RESIZE) : step_log[i].exit = "ok"
    /\ output_path # << >>
    /\ output_path[1].by = "pngquant" /\ output_path[1].w = 512

\* C15: a lossy failure advances to the lossless tier: in both functions, once
\* the result is returned, every invocation of pngquant that exited non-zero or
\* left no output file was followed, in the same function, by a run of optipng
\* on output_path, and nothing was raised to the caller.
C15_LossyFailureRunsLossless ==
    step_ret # << >>
        => /\ ~step_ret[1].raised
           /\ \A i \in 1..Len(step_log) :
                 ( /\ step_log[i].op = "pngquant"
                   /\ step_log[i].exit \in {"nonzero", "no_output"} )
                     => \E j \in (i + 1)..Len(step_log) :
                           /\ step_log[j].op = "optipng"
                           /\ step_log[j].fn = step_log[i].fn
                           /\ step_log[j].dst = "output_path"

\* C16: atomic output: the file at output_path is never an incomplete one, at
\* any step and so wherever the process is killed, and every operation that
\* writes output_path is the move of a temporary file.
C16_AtomicOutput ==
    /\ output_path # << >> => output_path[1].state = "complete"
    /\ \A i \in 1..Len(step_log) :
          step_log[i].dst = "output_path" => step_log[i].op = "move"

\* C21: the quality range is a pure lookup on the category: the range given to
\* every invocation of pngquant is the one optimize_png_same_size and the one
\* optimize_png_smart_resize select for the category of the file, so that two
\* invocations on one file get the same range, whichever function makes them.
C21_QualityPureLookup ==
    /\ \A i \in 1..Len(step_log) :
          step_log[i].op = "pngquant"
              => \A fn \in {SAME_SIZE, SMART_RESIZE} :
                    step_log[i].quality =
                        quality(fn, detect_content_type(step_input.name))
    /\ \A i, j \in 1..Len(step_log) :
          (step_log[i].op = "pngquant" /\ step_log[j].op = "pngquant")
              => step_log[i].quality = step_log[j].quality

\* C26: resize survives tool failure: when optimize_png_smart_resize has
\* returned after it computed dimensions other than the native ones, wrote the
\* resized image and invoked pngquant, the file at output_path has the computed
\* dimensions and the result has dimensions_changed = true, however that
\* invocation ended.
C26_ResizeSurvivesToolFailure ==
    ( /\ step_pc = "returned"
      /\ step_fn = SMART_RESIZE
      /\ step_dims # << >>
      /\ Changed
      /\ PngquantRuns(SMART_RESIZE) # {} )
        => /\ output_path # << >>
           /\ output_path[1].w = step_dims[1].w
           /\ output_path[1].h = step_dims[1].h
           /\ step_ret[1].dimensions_changed

----------------------------------------------------------------------------
(* Claims about the archive directories (SpecArchive) *)

\* C17: every run has its own archive directory: a later SmartOptimizer never
\* copies a file into the archive_dir of an earlier one, also when both were
\* made within one second of the clock.
C17_ArchivePerRun ==
    \A i, j \in 1..Len(runs) :
        i < j => \A k \in 1..Len(archive_writes) :
                    archive_writes[k].run = j
                        => archive_writes[k].dir # runs[i].archive_dir

----------------------------------------------------------------------------
(* Claims about AssetOptimizer (SpecAssets, SpecSummary) *)

\* C19: the stats aggregator drops and reorders nothing: when optimize_all has
\* ended, stats['savings'] has one entry for each asset that was handed to an
\* optimize function, PNG or WAV, optimized or failed, in the order of
\* processing, and files_processed counts them all.
C19_NothingDropped ==
    ao_pc = "done"
        => /\ Len(ao_stats.savings) = Len(ao_processed)
           /\ \A i \in 1..Len(ao_processed) :
                 i <= Len(ao_stats.savings)
                     => ao_stats.savings[i].file = ao_processed[i].name
           /\ ao_stats.files_processed = Len(ao_processed)

\* C24: AssetOptimizer leaves the original assets unchanged: for the default
\* output_dir and for every output_dir given on the command line, whatever the
\* tools do, optimize_all writes over no PNG or WAV file of assets_dir.
C24_OriginalsUnchanged == ao_overwritten = {}

\* C25: optimize_png_smart falls back to a simple copy: for every PNG it was
\* called on and for which pngquant exited non-zero or could not be launched,
\* False was returned and a file is at output_path.
C25_CopyFallback ==
    \A i \in 1..Len(ao_processed) :
        ( /\ EndsWith(ao_processed[i].name, ext_png)
          /\ ao_processed[i].pngquant \in {"nonzero", "launch_fail"} )
            => /\ ~ao_processed[i].success
               /\ ao_processed[i].name \in ao_output

\* the entries of a list, as a set
Entries(list) == {list[i] : i \in 1..Len(list)}

\* C20: top-wins ranking: the entries print_summary lists are in non-increasing
\* order of original - optimized, they are at most five (five, or all when fewer
\* are recorded) different entries of stats['savings'], and no entry left out
\* saves more than a listed one.
C20_TopWinsRanking ==
    ao_listed # << >>
        => LET listed == ao_listed[1] IN
           /\ Len(listed) <= TopWins
           /\ Len(listed) = Min(TopWins, Len(ao_stats.savings))
           /\ \A i, j \in 1..Len(listed) :
                 i < j => /\ Saved(listed[i]) >= Saved(listed[j])
                          /\ listed[i].file # listed[j].file
           /\ Entries(listed) \subseteq Entries(ao_stats.savings)
           /\ \A s \in Entries(ao_stats.savings) \ Entries(listed) :
                 \A l \in Entries(listed) : Saved(s) <= Saved(l)

\* six results were recorded, the third of them saving the least: five were
\* listed, the third recorded is not among them and the largest saving leads
C20_Witness ==
    /\ ao_listed # << >>
    /\ Len(ao_stats.savings) = TopWins + 1
    /\ Len(ao_listed[1]) = TopWins
    /\ ao_stats.savings[3] \notin Entries(ao_listed[1])
    /\ \A s \in Entries(ao_stats.savings) : Saved(ao_listed[1][1]) >= Saved(s)
    /\ Saved(ao_listed[1][1]) > Saved(ao_listed[1][TopWins])

====
